---- MODULE Spec2Model ----
(***************************************************************************)
(* The multi-service development supervisor of package devcmd             *)
(* (src/unnamed/part_006): DevManager, DevServer, the watch loop, the      *)
(* restart loop, the exit monitors and the HTTP control plane.             *)
(*                                                                         *)
(* Strings the code takes apart (paths, commands) are sequences of tokens; *)
(* a DevServer is an object id, so that a supervisor removed from the      *)
(* registry and one created later under the same name stay distinct.       *)
(***************************************************************************)
EXTENDS Integers, Sequences, FiniteSets, TLC

\* ------------------------------------------------------------ bounds
MaxServers == 2     \* DevServer objects constructed in one behaviour
MaxChildren == 2    \* exec.Cmd values tracked at the same time
MaxQueue == 1       \* filesystem events buffered ahead of watchFiles
MaxTime == 3        \* clock ticks (milliseconds) in a timed behaviour
MaxAppend == 4      \* log entries recorded in the append history
MaxLogLines == 2    \* the largest log_max_lines of a recorded behaviour

\* ------------------------------------------------------------ constants
ChanCap == 1        \* make(chan struct{}, 1)

Names == {"a", "b"}
Servers == 1..MaxServers
Children == 1..MaxChildren
Threads == {"h1", "h2"}

\* the handler goroutine of a client that sends one request at a time
Serial == {"h1"}
NoServer == 0
NoCmd == 0

\* ------------------------------------------------------------ strings
\* strings.Contains(s, sub)
Contains(s, sub) ==
    \E i \in 1..(Len(s) + 1) :
        /\ i + Len(sub) - 1 <= Len(s)
        /\ SubSeq(s, i, i + Len(sub) - 1) = sub

\* filepath.Ext: the suffix from the last dot of the last path element
RECURSIVE ExtFrom(_, _)
ExtFrom(path, i) ==
    IF i < 1 \/ path[i] = "/" THEN <<>>
    ELSE IF path[i] = "." THEN SubSeq(path, i, Len(path))
    ELSE ExtFrom(path, i - 1)

Ext(path) == ExtFrom(path, Len(path))

\* strings.Fields over a command line whose tokens are words and " "
Fields(s) == SelectSeq(s, LAMBDA tok : tok # " ")

\* strings.Join(args, " ")
RECURSIVE JoinSp(_)
JoinSp(args) ==
    IF Len(args) = 0 THEN <<>>
    ELSE IF Len(args) = 1 THEN <<args[1]>>
    ELSE <<args[1], " ">> \o JoinSp(Tail(args))

\* RunCmd + " " + strings.Join(RunArgs, " ")
RunCmdStr(cfg) ==
    IF Len(cfg.RunArgs) > 0 THEN cfg.RunCmd \o <<" ">> \o JoinSp(cfg.RunArgs)
    ELSE cfg.RunCmd

\* ------------------------------------------------------------ configuration
WildcardExt == <<".", "*">>
ExtG == <<".", "g">>
DirRoot == <<".">>
IgnV == <<"v">>

\* A ServiceConfig value
Cfg(name, build, run, delay, maxLines, enabled) ==
    [Name |-> name, Port |-> 0, WatchDirs |-> <<DirRoot>>, WatchExts |-> <<ExtG>>,
     IgnoreDirs |-> <<IgnV>>, BuildCmd |-> build, RunCmd |-> run, RunArgs |-> <<>>,
     Delay |-> delay, LogMaxLines |-> maxLines, Enabled |-> enabled]

NoCfg == Cfg("", <<>>, <<>>, 0, 0, FALSE)

\* a JSON document for a ServiceConfig: the keys it has and their values
JsonKeys == {"name", "port", "watch_dirs", "watch_exts", "ignore_dirs", "build_cmd",
             "run_cmd", "run_args", "delay", "log_max_lines", "enabled"}

Doc(keys, cfg) == [keys |-> keys, val |-> cfg]

\* json Decode into a zero ServiceConfig: a key the document lacks leaves
\* the zero value
Decode(doc) ==
    [Name |-> IF "name" \in doc.keys THEN doc.val.Name ELSE "",
     Port |-> IF "port" \in doc.keys THEN doc.val.Port ELSE 0,
     WatchDirs |-> IF "watch_dirs" \in doc.keys THEN doc.val.WatchDirs ELSE <<>>,
     WatchExts |-> IF "watch_exts" \in doc.keys THEN doc.val.WatchExts ELSE <<>>,
     IgnoreDirs |-> IF "ignore_dirs" \in doc.keys THEN doc.val.IgnoreDirs ELSE <<>>,
     BuildCmd |-> IF "build_cmd" \in doc.keys THEN doc.val.BuildCmd ELSE <<>>,
     RunCmd |-> IF "run_cmd" \in doc.keys THEN doc.val.RunCmd ELSE <<>>,
     RunArgs |-> IF "run_args" \in doc.keys THEN doc.val.RunArgs ELSE <<>>,
     Delay |-> IF "delay" \in doc.keys THEN doc.val.Delay ELSE 0,
     LogMaxLines |-> IF "log_max_lines" \in doc.keys THEN doc.val.LogMaxLines ELSE 0,
     Enabled |-> IF "enabled" \in doc.keys THEN doc.val.Enabled ELSE FALSE]

BuildCmds == {<<>>, <<"make">>}
RunCmds == {<<>>, <<" ">>, <<"run">>}

\* ------------------------------------------------------------ state
VARIABLES
    servers,     \* DevManager.servers: name -> DevServer object (0: no entry)
    mcfg,        \* DevManager.config.Services
    saved,       \* the services in the configuration file
    serversMu,   \* the holder of DevManager.serversMu's write lock ("none")
    nsrv,        \* DevServer objects constructed so far
    srvName,     \* DevServer.name
    config,      \* DevServer.config
    watcher,     \* DevServer.watcher: "nil", "open", "closed"
    watched,     \* the directories the watcher is subscribed to
    evq,         \* events waiting in watcher.Events, each with its arrival time
    cmd,         \* DevServer.cmd: 0 (nil) or an exec.Cmd
    restartCh,   \* len(DevServer.restartCh)
    stopCh,      \* DevServer.stopCh is closed
    lastRestart, \* DevServer.lastRestart
    status,      \* DevServer.status
    logs,        \* DevServer.logs
    spc,         \* position of the DevServer.Start goroutine
    wfpc,        \* position of the watchFiles goroutine
    wakeAt,      \* when watchFiles' time.Sleep returns
    rewatch,     \* handleConfig's goroutines that have yet to call addWatchDirs
    mpc,         \* position of the manageProcess goroutine
    childSt,     \* exec.Cmd: "none", "new", "failed", "live", "exited", "killed"
    owner,       \* the DevServer an exec.Cmd was made by
    mon,         \* the exec.Cmd's exit monitor goroutine has not finished
    hpc,         \* position of an HTTP handler goroutine
    hreq,        \* the request it serves
    resp,        \* its last response: status code (0: none yet, -1: the handler
                 \* panicked and the connection was dropped) and body
    crashed,     \* a panic outside an HTTP handler ended the program
    now,         \* the clock
    lastEvent,   \* history: arrival of the last relevant event and of the one
                 \* served, and the event watchFiles took last
    appended,    \* history: every entry passed to addLog, while recorded
    shut         \* DevManager.Stop in the main goroutine: its position, the
                 \* supervisor it is stopping and those it has stopped

vars == <<servers, mcfg, saved, serversMu, nsrv, srvName, config, watcher, watched,
          evq, cmd, restartCh, stopCh, lastRestart, status, logs, spc, wfpc, wakeAt,
          rewatch, mpc, childSt, owner, mon, hpc, hreq, resp, crashed, now, lastEvent,
          appended, shut>>

mgrVars == <<servers, mcfg, saved, serversMu, nsrv, srvName, shut>>
watchVars == <<watcher, watched, evq, wfpc, wakeAt, rewatch, lastEvent>>
procVars == <<cmd, childSt, owner, mon>>
httpVars == <<hpc, hreq, resp>>

\* ------------------------------------------------------------ filesystem
\* The directory tree the services watch: "." holding "p" and "v".
FsDirs == {DirRoot, <<"p">>, <<"v">>}

\* filepath.Dir of a relative path
RECURSIVE DirFrom(_, _)
DirFrom(path, i) ==
    IF i < 1 THEN DirRoot
    ELSE IF path[i] = "/" THEN SubSeq(path, 1, i - 1)
    ELSE DirFrom(path, i - 1)

Dir(path) == DirFrom(path, Len(path))

SubDirs(d) == {p \in FsDirs : p # DirRoot /\ Dir(p) = d}

\* the loop over IgnoreDirs with strings.Contains
Ignored(cfg, path) ==
    \E i \in 1..Len(cfg.IgnoreDirs) : Contains(path, cfg.IgnoreDirs[i])

\* filepath.Walk with SkipDir on an ignored directory
RECURSIVE Walk(_, _)
Walk(cfg, d) ==
    IF d \notin FsDirs \/ Ignored(cfg, d) THEN {}
    ELSE {d} \cup UNION {Walk(cfg, c) : c \in SubDirs(d)}

\* DevServer.addWatchDirs
AddWatchDirs(cfg) == UNION {Walk(cfg, cfg.WatchDirs[i]) : i \in 1..Len(cfg.WatchDirs)}

\* the elements of a path between its separators
Components(path) ==
    {SubSeq(path, r[1], r[2]) : r \in
        {r \in (1..Len(path)) \X (1..Len(path)) :
            /\ r[1] <= r[2]
            /\ \A i \in r[1]..r[2] : path[i] # "/"
            /\ r[1] = 1 \/ path[r[1] - 1] = "/"
            /\ r[2] = Len(path) \/ path[r[2] + 1] = "/"}}

\* ShouldWatch without the ".*" wildcard
ShouldWatchExactExt(cfg, path) ==
    /\ \E i \in 1..Len(cfg.WatchExts) : Ext(path) = cfg.WatchExts[i]
    /\ ~Ignored(cfg, path)

\* ShouldWatch ignoring a path only when one of its elements is an entry of
\* IgnoreDirs
ShouldWatchComponents(cfg, path) ==
    /\ \E i \in 1..Len(cfg.WatchExts) :
          Ext(path) = cfg.WatchExts[i] \/ cfg.WatchExts[i] = WildcardExt
    /\ ~\E i \in 1..Len(cfg.IgnoreDirs) : cfg.IgnoreDirs[i] \in Components(path)

\* DevServer.shouldWatch
ShouldWatch(cfg, path) ==
    /\ \E i \in 1..Len(cfg.WatchExts) :
          Ext(path) = cfg.WatchExts[i] \/ cfg.WatchExts[i] = WildcardExt
    /\ ~Ignored(cfg, path)

\* the event operations watchFiles restarts on
RestartOps == {"Write", "Create", "Remove"}

Event(path, op, isDir) == [path |-> path, op |-> op, isDir |-> isDir]

FileMG == <<"m", ".", "g">>
FileMX == <<"m", ".", "x">>
FileVG == <<"v", ".", "g">>

\* ------------------------------------------------------------ logs
Entry(level, msg) == [time |-> now, level |-> level, msg |-> msg]

\* AddLog evicting the newest entries instead of the oldest
AddLogKeepOldest(buf, max, e) ==
    LET l == Append(buf, e)
    IN IF Len(l) > max THEN SubSeq(l, 1, max) ELSE l

\* DevServer.addLog on one buffer
AddLog(buf, max, e) ==
    LET l == Append(buf, e)
    IN IF Len(l) > max THEN SubSeq(l, Len(l) - max + 1, Len(l)) ELSE l

RECURSIVE AddLogs(_, _, _)
AddLogs(buf, max, es) ==
    IF es = <<>> THEN buf ELSE AddLogs(AddLog(buf, max, Head(es)), max, Tail(es))

\* the append history, recorded in behaviours that start with it on
Recorded(h, es) == IF h.on THEN [h EXCEPT !.all = @ \o es] ELSE h

\* calls of s.addLog, in order, by one step
Log(o, es) ==
    /\ appended[o].on => Len(appended[o].all) + Len(es) <= MaxAppend
    /\ logs' = [logs EXCEPT ![o] = AddLogs(@, config[o].LogMaxLines, es)]
    /\ appended' = [appended EXCEPT ![o] = Recorded(@, es)]

NoLog == UNCHANGED <<logs, appended>>

\* ------------------------------------------------------------ processes
Dead(c) == childSt[c] \in {"exit0", "exit1"}
Live(c) == childSt[c] = "live"

\* s.cmd != nil && s.cmd.Process != nil
HasProcess(o) == cmd[o] # NoCmd /\ childSt[cmd[o]] \in {"live", "exit0", "exit1"}

\* an exec.Cmd nothing refers to any more is forgotten
Release(cs, cm, mn) ==
    [c \in Children |->
        IF cs[c] \in {"failed", "exit0", "exit1"} /\ ~mn[c] /\ \A o \in Servers : cm[o] # c
        THEN "none" ELSE cs[c]]

SetProcs(cs, cm, mn, ow) ==
    /\ childSt' = Release(cs, cm, mn)
    /\ cmd' = cm
    /\ mon' = mn
    /\ owner' = [c \in Children |-> IF Release(cs, cm, mn)[c] = "none" THEN NoServer ELSE ow[c]]

CyclePcs == {"sp_check", "sp_kill", "sp_wait", "sp_clear", "sp_status",
             "build", "building", "run", "start"}

\* restartProcess holds s.mu from its first line to its return
MuHeld(o) == mpc[o] \in CyclePcs

StopPcs == {"sp_check", "sp_kill", "sp_wait", "sp_clear", "sp_status"}

\* DevServer.stopProcess, one shared-memory access per step; nxt is where the
\* caller stands afterwards ("sp_ret": returned, "sp_panic": nil dereference)
StopProcessStep(o, at, nxt) ==
    \/ /\ at = "sp_check" /\ HasProcess(o) /\ nxt = "sp_kill"
       /\ Log(o, <<Entry("info", "stop process")>>)
       /\ UNCHANGED <<procVars, status>>
    \/ /\ at = "sp_check" /\ ~HasProcess(o) /\ nxt = "sp_status"
       /\ NoLog /\ UNCHANGED <<procVars, status>>
    \/ /\ at = "sp_kill" /\ ~HasProcess(o) /\ nxt = "sp_panic"
       /\ NoLog /\ UNCHANGED <<procVars, status>>
    \/ /\ at = "sp_kill" /\ HasProcess(o) /\ nxt = "sp_wait"
       /\ SetProcs([childSt EXCEPT ![cmd[o]] = IF @ = "live" THEN "exit1" ELSE @],
                   cmd, mon, owner)
       /\ NoLog /\ UNCHANGED status
    \/ /\ at = "sp_wait" /\ cmd[o] = NoCmd /\ nxt = "sp_panic"
       /\ NoLog /\ UNCHANGED <<procVars, status>>
    \/ /\ at = "sp_wait" /\ cmd[o] # NoCmd /\ ~Live(cmd[o]) /\ nxt = "sp_clear"
       /\ NoLog /\ UNCHANGED <<procVars, status>>
    \/ /\ at = "sp_clear" /\ nxt = "sp_status"
       /\ SetProcs(childSt, [cmd EXCEPT ![o] = NoCmd], mon, owner)
       /\ NoLog /\ UNCHANGED status
    \/ /\ at = "sp_status" /\ nxt = "sp_ret"
       /\ status' = [status EXCEPT ![o] = "stopped"]
       /\ NoLog /\ UNCHANGED procVars

StepPcs == StopPcs \cup {"sp_ret", "sp_panic"}

\* ------------------------------------------------------------ construction
NoReq == [ep |-> "", o |-> NoServer, cfg |-> NoCfg, code |-> 0]
NoData == [cfg |-> NoCfg, names |-> {}]
NoResp == [code |-> 0, body |-> "", data |-> NoData]
NoHist(on) == [on |-> on, all |-> <<>>]

\* the number of enabled services among the first i of a configuration list
Rank(cfgs, i) == Cardinality({j \in 1..i : cfgs[j].Enabled})

\* the enabled service NewDevManager makes its o-th DevServer from
CfgOf(cfgs, o) == cfgs[CHOOSE i \in 1..Len(cfgs) : cfgs[i].Enabled /\ Rank(cfgs, i) = o]

\* CfgPtr with one svcCfg variable shared by all iterations of the loop: every
\* &svcCfg points at the last service of the list
CfgPtrShared(cfgs, o) == cfgs[Len(cfgs)]

\* what &svcCfg of the o-th DevServer points at: each iteration of the range
\* loop has its own svcCfg (the packages imported need go 1.22 or later)
CfgPtr(cfgs, o) == CfgOf(cfgs, o)

\* NewDevManager over cfgs, and DevManager.Start having launched every
\* DevServer.Start goroutine
InitSys(cfgs, histOn) ==
    /\ mcfg = cfgs
    /\ saved = cfgs
    /\ nsrv = Rank(cfgs, Len(cfgs))
    /\ servers = [n \in Names |->
          IF \E i \in 1..Len(cfgs) : cfgs[i].Name = n /\ cfgs[i].Enabled
          THEN Rank(cfgs, CHOOSE i \in 1..Len(cfgs) : cfgs[i].Name = n /\ cfgs[i].Enabled)
          ELSE NoServer]
    /\ serversMu = "none"
    /\ srvName = [o \in Servers |-> IF o <= Rank(cfgs, Len(cfgs)) THEN CfgOf(cfgs, o).Name ELSE ""]
    /\ config = [o \in Servers |-> IF o <= Rank(cfgs, Len(cfgs)) THEN CfgPtr(cfgs, o) ELSE NoCfg]
    /\ watcher = [o \in Servers |-> "nil"]
    /\ watched = [o \in Servers |-> {}]
    /\ evq = [o \in Servers |-> <<>>]
    /\ cmd = [o \in Servers |-> NoCmd]
    /\ restartCh = [o \in Servers |-> 0]
    /\ stopCh = [o \in Servers |-> FALSE]
    /\ lastRestart = [o \in Servers |-> 0]
    /\ status = [o \in Servers |-> IF o <= Rank(cfgs, Len(cfgs)) THEN "stopped" ELSE ""]
    /\ logs = [o \in Servers |-> <<>>]
    /\ spc = [o \in Servers |-> IF o <= Rank(cfgs, Len(cfgs)) THEN "new" ELSE "none"]
    /\ wfpc = [o \in Servers |-> "off"]
    /\ wakeAt = [o \in Servers |-> 0]
    /\ rewatch = [o \in Servers |-> 0]
    /\ mpc = [o \in Servers |-> "off"]
    /\ childSt = [c \in Children |-> "none"]
    /\ owner = [c \in Children |-> NoServer]
    /\ mon = [c \in Children |-> FALSE]
    /\ hpc = [t \in Threads |-> "idle"]
    /\ hreq = [t \in Threads |-> NoReq]
    /\ resp = [t \in Threads |-> NoResp]
    /\ crashed = FALSE
    /\ now = 0
    /\ lastEvent = [o \in Servers |-> [last |-> 0, served |-> 0, ev |-> Event(<<>>, "", FALSE)]]
    /\ appended = [o \in Servers |-> NoHist(histOn)]
    /\ shut = [pc |-> "run", o |-> NoServer, seen |-> {}]

Made(o) == o <= nsrv

\* ------------------------------------------------------------ DevServer.Start
\* fsnotify.NewWatcher, addWatchDirs, go watchFiles, go manageProcess
StartBegin(o) ==
    /\ ~crashed /\ spc[o] = "new"
    /\ watcher' = [watcher EXCEPT ![o] = "open"]
    /\ watched' = [watched EXCEPT ![o] = AddWatchDirs(config[o])]
    /\ wfpc' = [wfpc EXCEPT ![o] = "idle"]
    /\ mpc' = [mpc EXCEPT ![o] = "idle"]
    /\ spc' = [spc EXCEPT ![o] = "send"]
    /\ UNCHANGED <<mgrVars, config, evq, procVars, restartCh, stopCh, lastRestart,
                   status, logs, wakeAt, httpVars, crashed, now, lastEvent, appended, rewatch>>

\* StartSend going on without the initial trigger
StartSendNone(o) ==
    /\ ~crashed /\ spc[o] = "send"
    /\ spc' = [spc EXCEPT ![o] = "wait"]
    /\ UNCHANGED <<mgrVars, config, watchVars, procVars, restartCh, stopCh, lastRestart,
                   status, logs, mpc, httpVars, crashed, now, appended>>

\* s.restartCh <- struct{}{} : the initial trigger, a blocking send
StartSend(o) ==
    /\ ~crashed /\ spc[o] = "send"
    /\ restartCh[o] < ChanCap
    /\ restartCh' = [restartCh EXCEPT ![o] = @ + 1]
    /\ spc' = [spc EXCEPT ![o] = "wait"]
    /\ UNCHANGED <<mgrVars, config, watchVars, procVars, stopCh, lastRestart, status,
                   logs, mpc, httpVars, crashed, now, appended>>

\* <-s.stopCh
StartReturn(o) ==
    /\ ~crashed /\ spc[o] = "wait" /\ stopCh[o]
    /\ spc' = [spc EXCEPT ![o] = "ret"]
    /\ UNCHANGED <<mgrVars, config, watchVars, procVars, restartCh, stopCh, lastRestart,
                   status, logs, mpc, httpVars, crashed, now, appended>>

\* ------------------------------------------------------------ watchFiles
\* whether watchFiles answers an event with addLog and scheduleRestart
Relevant(cfg, ev) == ShouldWatch(cfg, ev.path) /\ ev.op \in RestartOps

\* the kernel reports a change in a watched directory
FsEvent(o, ev) ==
    /\ ~crashed /\ watcher[o] = "open"
    /\ Len(evq[o]) < MaxQueue
    /\ Dir(ev.path) \in watched[o]
    /\ evq' = [evq EXCEPT ![o] = Append(@, [ev |-> ev, at |-> now])]
    /\ lastEvent' = [lastEvent EXCEPT ![o].last = IF Relevant(config[o], ev) THEN now ELSE @]
    /\ UNCHANGED <<mgrVars, config, watcher, watched, wfpc, wakeAt, procVars, restartCh,
                   stopCh, lastRestart, status, logs, spc, mpc, httpVars, crashed, now,
                   appended, rewatch>>

\* case event := <-s.watcher.Events, up to the time.Sleep of scheduleRestart
WfEvent(o) ==
    /\ ~crashed /\ wfpc[o] = "idle" /\ watcher[o] = "open" /\ evq[o] # <<>>
    /\ LET ev == Head(evq[o]).ev
           cfg == config[o]
       IN /\ evq' = [evq EXCEPT ![o] = Tail(@)]
          /\ lastEvent' = [lastEvent EXCEPT ![o].served =
                IF Relevant(cfg, ev) THEN Head(evq[o]).at ELSE @, ![o].ev = ev]
          /\ watched' = [watched EXCEPT ![o] =
                IF ShouldWatch(cfg, ev.path) /\ ev.op = "Create" /\ ev.isDir
                   /\ ~Ignored(cfg, ev.path)
                THEN @ \cup {ev.path} ELSE @]
          /\ IF Relevant(cfg, ev)
             THEN /\ Log(o, <<Entry("info", "file changed")>>)
                  /\ wfpc' = [wfpc EXCEPT ![o] = "sleep"]
                  /\ wakeAt' = [wakeAt EXCEPT ![o] = now + cfg.Delay]
             ELSE NoLog /\ UNCHANGED <<wfpc, wakeAt, rewatch>>
    /\ UNCHANGED <<mgrVars, config, watcher, rewatch, procVars, restartCh, stopCh,
                   lastRestart, status, spc, mpc, httpVars, crashed, now>>

\* ScheduleSend queueing every trigger
ScheduleSendQueued(o) ==
    /\ restartCh' = [restartCh EXCEPT ![o] = @ + 1]
    /\ wfpc' = [wfpc EXCEPT ![o] = "idle"]

\* ScheduleSend with a plain (blocking) channel send
ScheduleSendBlocking(o) ==
    /\ restartCh[o] < ChanCap
    /\ restartCh' = [restartCh EXCEPT ![o] = @ + 1]
    /\ wfpc' = [wfpc EXCEPT ![o] = "idle"]

\* select { case s.restartCh <- struct{}{}: default: }
ScheduleSend(o) ==
    /\ restartCh' = [restartCh EXCEPT ![o] = IF @ < ChanCap THEN @ + 1 ELSE @]
    /\ wfpc' = [wfpc EXCEPT ![o] = "idle"]

\* scheduleRestart once time.Sleep(Delay) has returned
WfSend(o) ==
    /\ ~crashed /\ wfpc[o] = "sleep" /\ now >= wakeAt[o]
    /\ ScheduleSend(o)
    /\ UNCHANGED <<mgrVars, config, watcher, watched, evq, wakeAt, lastEvent, procVars,
                   stopCh, lastRestart, status, logs, spc, mpc, httpVars, crashed, now,
                   appended, rewatch>>

\* case err := <-s.watcher.Errors
WfError(o) ==
    /\ ~crashed /\ wfpc[o] = "idle" /\ watcher[o] = "open"
    /\ Log(o, <<Entry("error", "watch error")>>)
    /\ UNCHANGED <<mgrVars, config, watchVars, procVars, restartCh, stopCh, lastRestart,
                   status, spc, mpc, httpVars, crashed, now>>

\* case <-s.stopCh, or the watcher's channels were closed
WfStop(o) ==
    /\ ~crashed /\ wfpc[o] = "idle"
    /\ stopCh[o] \/ watcher[o] = "closed"
    /\ wfpc' = [wfpc EXCEPT ![o] = "done"]
    /\ UNCHANGED <<mgrVars, config, watcher, watched, evq, wakeAt, lastEvent, procVars,
                   restartCh, stopCh, lastRestart, status, logs, spc, mpc, httpVars,
                   crashed, now, appended, rewatch>>

\* ------------------------------------------------------------ manageProcess
\* MpReceive with restartProcess not calling stopProcess first
MpReceiveNoStop(o) ==
    /\ ~crashed /\ mpc[o] = "idle" /\ restartCh[o] > 0
    /\ restartCh' = [restartCh EXCEPT ![o] = @ - 1]
    /\ mpc' = [mpc EXCEPT ![o] = "build"]
    /\ UNCHANGED <<mgrVars, config, watchVars, procVars, stopCh, lastRestart, status,
                   logs, spc, httpVars, crashed, now, appended>>

\* MpReceive with one lock for the restart cycles of all supervisors
MpReceiveOneLock(o) ==
    /\ ~crashed /\ mpc[o] = "idle" /\ restartCh[o] > 0
    /\ \A p \in Servers : ~MuHeld(p)
    /\ restartCh' = [restartCh EXCEPT ![o] = @ - 1]
    /\ mpc' = [mpc EXCEPT ![o] = "sp_check"]
    /\ UNCHANGED <<mgrVars, config, watchVars, procVars, stopCh, lastRestart, status,
                   logs, spc, httpVars, crashed, now, appended>>

\* case <-s.restartCh: s.restartProcess(), up to s.mu.Lock()
MpReceive(o) ==
    /\ ~crashed /\ mpc[o] = "idle" /\ restartCh[o] > 0
    /\ restartCh' = [restartCh EXCEPT ![o] = @ - 1]
    /\ mpc' = [mpc EXCEPT ![o] = "sp_check"]
    /\ UNCHANGED <<mgrVars, config, watchVars, procVars, stopCh, lastRestart, status,
                   logs, spc, httpVars, crashed, now, appended>>

\* case <-s.stopCh: return
MpStop(o) ==
    /\ ~crashed /\ mpc[o] = "idle" /\ stopCh[o]
    /\ mpc' = [mpc EXCEPT ![o] = "done"]
    /\ UNCHANGED <<mgrVars, config, watchVars, procVars, restartCh, stopCh, lastRestart,
                   status, logs, spc, httpVars, crashed, now, appended>>

\* where restartProcess goes on after its call of stopProcess
AfterStop(nxt) == IF nxt = "sp_ret" THEN "build" ELSE nxt

\* restartProcess: s.stopProcess(); a panic here is in no handler and ends
\* the program
MpStopProcess(o) ==
    /\ ~crashed /\ mpc[o] \in StopPcs
    /\ \E nxt \in StepPcs :
          /\ StopProcessStep(o, mpc[o], nxt)
          /\ mpc' = [mpc EXCEPT ![o] = AfterStop(nxt)]
          /\ crashed' = (nxt = "sp_panic")
    /\ UNCHANGED <<mgrVars, config, watchVars, restartCh, stopCh, lastRestart, spc,
                   httpVars, now>>

\* restartProcess: if BuildCmd != "", start sh -c BuildCmd
MpBuild(o) ==
    /\ ~crashed /\ mpc[o] = "build"
    /\ IF config[o].BuildCmd # <<>>
       THEN /\ Log(o, <<Entry("info", "building")>>)
            /\ mpc' = [mpc EXCEPT ![o] = "building"]
       ELSE NoLog /\ mpc' = [mpc EXCEPT ![o] = "run"]
    /\ UNCHANGED <<mgrVars, config, watchVars, procVars, restartCh, stopCh, lastRestart,
                   status, spc, httpVars, crashed, now>>

\* restartProcess: buildCmd.Run() returns, with or without an error
BuildEnd(o, ok) ==
    IF ok
    THEN /\ Log(o, <<Entry("info", "build ok")>>)
         /\ mpc' = [mpc EXCEPT ![o] = "run"]
         /\ UNCHANGED status
    ELSE /\ Log(o, <<Entry("error", "build failed")>>)
         /\ status' = [status EXCEPT ![o] = "build_failed"]
         /\ mpc' = [mpc EXCEPT ![o] = "idle"]

MpBuildEnd(o, ok) ==
    /\ ~crashed /\ mpc[o] = "building"
    /\ BuildEnd(o, ok)
    /\ UNCHANGED <<mgrVars, config, watchVars, procVars, restartCh, stopCh, lastRestart,
                   spc, httpVars, crashed, now>>

FreeChildren == {c \in Children : childSt[c] = "none"}

\* restartProcess: if RunCmd != "", exec.Command and s.cmd = cmd
MpRun(o) ==
    /\ ~crashed /\ mpc[o] = "run"
    /\ IF config[o].RunCmd = <<>>
       THEN /\ mpc' = [mpc EXCEPT ![o] = "idle"]
            /\ NoLog /\ UNCHANGED procVars
       ELSE IF Fields(RunCmdStr(config[o])) = <<>>
       THEN /\ Log(o, <<Entry("info", "starting"), Entry("error", "run command empty")>>)
            /\ mpc' = [mpc EXCEPT ![o] = "idle"]
            /\ UNCHANGED procVars
       ELSE /\ FreeChildren # {}
            /\ LET c == CHOOSE x \in FreeChildren : \A y \in FreeChildren : x <= y
               IN SetProcs([childSt EXCEPT ![c] = "new"], [cmd EXCEPT ![o] = c],
                           mon, [owner EXCEPT ![c] = o])
            /\ Log(o, <<Entry("info", "starting")>>)
            /\ mpc' = [mpc EXCEPT ![o] = "start"]
    /\ UNCHANGED <<mgrVars, config, watchVars, restartCh, stopCh, lastRestart, status,
                   spc, httpVars, crashed, now>>

\* the exec.Cmd restartProcess holds in its local variable cmd
LocalCmd(o) == CHOOSE c \in Children : owner[c] = o /\ childSt[c] = "new"

\* restartProcess: cmd.Start(), then status, lastRestart and the exit monitor
StartCmd(o, ok) ==
    IF ok
    THEN /\ SetProcs([childSt EXCEPT ![LocalCmd(o)] = "live"], cmd,
                     [mon EXCEPT ![LocalCmd(o)] = TRUE], owner)
         /\ status' = [status EXCEPT ![o] = "running"]
         /\ lastRestart' = [lastRestart EXCEPT ![o] = now]
         /\ NoLog
    ELSE /\ SetProcs([childSt EXCEPT ![LocalCmd(o)] = "failed"], cmd, mon, owner)
         /\ Log(o, <<Entry("error", "start failed")>>)
         /\ status' = [status EXCEPT ![o] = "start_failed"]
         /\ UNCHANGED lastRestart

MpStart(o, ok) ==
    /\ ~crashed /\ mpc[o] = "start"
    /\ StartCmd(o, ok)
    /\ mpc' = [mpc EXCEPT ![o] = "idle"]
    /\ UNCHANGED <<mgrVars, config, watchVars, restartCh, stopCh, spc, httpVars,
                   crashed, now>>

\* ------------------------------------------------------------ child processes
\* the child process ends by itself, with exit status 0 or not
ChildExit(c, ok) ==
    /\ Live(c)
    /\ SetProcs([childSt EXCEPT ![c] = IF ok THEN "exit0" ELSE "exit1"], cmd, mon, owner)
    /\ UNCHANGED <<mgrVars, config, watchVars, restartCh, stopCh, lastRestart, status,
                   logs, spc, mpc, httpVars, crashed, now, appended>>

\* DevServer.Write: the child writes to its stdout or stderr
ChildWrite(c) ==
    /\ ~crashed /\ Live(c)
    /\ Log(owner[c], <<Entry("output", "child output")>>)
    /\ UNCHANGED <<mgrVars, config, watchVars, procVars, restartCh, stopCh, lastRestart,
                   status, spc, mpc, httpVars, crashed, now>>

\* MonitorDone restarting the service when its process has ended
MonitorDoneRestart(c) ==
    /\ Log(owner[c], <<IF childSt[c] = "exit0" THEN Entry("info", "process exited")
                      ELSE Entry("error", "process exit error")>>)
    /\ status' = [status EXCEPT ![owner[c]] = "stopped"]
    /\ SetProcs(childSt, cmd, [mon EXCEPT ![c] = FALSE], owner)
    /\ restartCh' = [restartCh EXCEPT ![owner[c]] = ChanCap]

\* the monitor goroutine: cmd.Wait() returned and s.mu was acquired
MonitorDone(c) ==
    /\ Log(owner[c], <<IF childSt[c] = "exit0" THEN Entry("info", "process exited")
                      ELSE Entry("error", "process exit error")>>)
    /\ status' = [status EXCEPT ![owner[c]] = "stopped"]
    /\ SetProcs(childSt, cmd, [mon EXCEPT ![c] = FALSE], owner)
    /\ UNCHANGED restartCh

MonitorExit(c) ==
    /\ ~crashed /\ mon[c] /\ Dead(c) /\ ~MuHeld(owner[c])
    /\ MonitorDone(c)
    /\ UNCHANGED <<mgrVars, config, watchVars, stopCh, lastRestart, spc, mpc, httpVars,
                   crashed, now>>

\* ------------------------------------------------------------ control plane
Reply(code, body) == [code |-> code, body |-> body, data |-> NoData]

\* m.servers[name]
Lookup(name) == IF name \in Names THEN servers[name] ELSE NoServer

\* a handler returns: the response is written and the goroutine ends
Respond(t, code, body) ==
    /\ resp' = [resp EXCEPT ![t] = Reply(code, body)]
    /\ hpc' = [hpc EXCEPT ![t] = "idle"]
    /\ hreq' = [hreq EXCEPT ![t] = NoReq]

\* a handler goes on at pc with the request context r
Goto(t, pc, r) ==
    /\ hpc' = [hpc EXCEPT ![t] = pc]
    /\ hreq' = [hreq EXCEPT ![t] = r]
    /\ UNCHANGED resp

Req(ep, o, cfg, code) == [ep |-> ep, o |-> o, cfg |-> cfg, code |-> code]

\* a handler returns with a JSON document as the response body
RespondData(t, code, data) ==
    /\ resp' = [resp EXCEPT ![t] = [code |-> code, body |-> "json", data |-> data]]
    /\ hpc' = [hpc EXCEPT ![t] = "idle"]
    /\ hreq' = [hreq EXCEPT ![t] = NoReq]

\* handleServices: the names in m.servers
HandleServices(t) ==
    /\ ~crashed /\ hpc[t] = "idle"
    /\ serversMu = "none"
    /\ \A n \in Names : servers[n] # NoServer => ~MuHeld(servers[n])
    /\ RespondData(t, 200, [NoData EXCEPT !.names = {n \in Names : servers[n] # NoServer}])
    /\ UNCHANGED <<mgrVars, config, watchVars, procVars, restartCh, stopCh, lastRestart,
                   status, logs, spc, mpc, crashed, now, appended>>

\* handleConfig up to s.mu.RLock() or s.mu.Lock(): the service parameter and
\* the lookup come before the switch on the method
HandleConfig(t, method, name, wellFormed, cfg) ==
    /\ ~crashed /\ hpc[t] = "idle"
    /\ IF name = "" THEN Respond(t, 400, "missing service")
       ELSE /\ serversMu = "none"
            /\ IF Lookup(name) = NoServer THEN Respond(t, 404, "not found")
               ELSE IF method = "GET"
               THEN Goto(t, "hc_get", Req("config", Lookup(name), NoCfg, 200))
               ELSE IF method \in {"POST", "PUT"}
               THEN IF wellFormed
                    THEN Goto(t, "hc_set", Req("config", Lookup(name), cfg, 200))
                    ELSE Respond(t, 400, "bad body")
               ELSE Respond(t, 405, "method not allowed")
    /\ UNCHANGED <<mgrVars, config, watchVars, procVars, restartCh, stopCh, lastRestart,
                   status, logs, spc, mpc, crashed, now, appended>>

\* handleConfig GET: cfg := s.config under s.mu, encoded as the response
HcGet(t) ==
    /\ ~crashed /\ hpc[t] = "hc_get"
    /\ ~MuHeld(hreq[t].o)
    /\ RespondData(t, 200, [NoData EXCEPT !.cfg = config[hreq[t].o]])
    /\ UNCHANGED <<mgrVars, config, watchVars, procVars, restartCh, stopCh, lastRestart,
                   status, logs, spc, mpc, crashed, now, appended>>

\* HcSet asking for a restart after it has replaced the configuration
HcSetRestart(t) ==
    /\ ~crashed /\ hpc[t] = "hc_set"
    /\ ~MuHeld(hreq[t].o)
    /\ config' = [config EXCEPT ![hreq[t].o] = hreq[t].cfg]
    /\ restartCh' = [restartCh EXCEPT ![hreq[t].o] = ChanCap]
    /\ Log(hreq[t].o, <<Entry("info", "config updated")>>)
    /\ Respond(t, 200, "ok")
    /\ UNCHANGED <<mgrVars, watchVars, procVars, stopCh, lastRestart, status, spc, mpc,
                   crashed, now>>

\* handleConfig POST/PUT: s.config = &cfg under s.mu, a goroutine to reload
\* the watch directories when they changed, addLog, 200
HcSet(t) ==
    /\ ~crashed /\ hpc[t] = "hc_set"
    /\ LET o == hreq[t].o
           cfg == hreq[t].cfg
           dirsChanged == watcher[o] # "nil" /\ config[o].WatchDirs # cfg.WatchDirs
       IN /\ ~MuHeld(o)
          /\ config' = [config EXCEPT ![o] = cfg]
          /\ dirsChanged => rewatch[o] < MaxQueue
          /\ rewatch' = [rewatch EXCEPT ![o] = IF dirsChanged THEN @ + 1 ELSE @]
          /\ logs' = [logs EXCEPT ![o] =
                AddLog(@, cfg.LogMaxLines, Entry("info", "config updated"))]
          /\ appended' = [appended EXCEPT ![o] =
                Recorded(@, <<Entry("info", "config updated")>>)]
          /\ appended[o].on => Len(appended[o].all) < MaxAppend
    /\ Respond(t, 200, "ok")
    /\ UNCHANGED <<mgrVars, watcher, watched, evq, wfpc, wakeAt, lastEvent, procVars,
                   restartCh, stopCh, lastRestart, status, spc, mpc, crashed, now>>

\* the goroutine of handleConfig: s.addWatchDirs(), then addLog
ReloadWatch(o) ==
    /\ ~crashed /\ rewatch[o] > 0
    /\ rewatch' = [rewatch EXCEPT ![o] = @ - 1]
    /\ watched' = [watched EXCEPT ![o] =
          IF watcher[o] = "open" THEN @ \cup AddWatchDirs(config[o]) ELSE @]
    /\ Log(o, <<Entry("info", "watch dirs reloaded")>>)
    /\ UNCHANGED <<mgrVars, config, watcher, evq, wfpc, wakeAt, lastEvent, procVars,
                   restartCh, stopCh, lastRestart, status, spc, mpc, httpVars, crashed,
                   now>>

\* handleLogs
HandleLogs(t, name) ==
    /\ ~crashed /\ hpc[t] = "idle"
    /\ IF name = "" THEN Respond(t, 400, "missing service")
       ELSE /\ serversMu = "none"
            /\ IF Lookup(name) = NoServer THEN Respond(t, 404, "not found")
               ELSE Respond(t, 200, "logs")
    /\ UNCHANGED <<mgrVars, config, watchVars, procVars, restartCh, stopCh, lastRestart,
                   status, logs, spc, mpc, crashed, now, appended>>

\* handleSaveConfig: the configuration is written to the file, or the write fails
\* HandleSaveConfig writing the spec every registered supervisor runs with
HandleSaveConfigRunning(t, method, ok) ==
    /\ ~crashed /\ hpc[t] = "idle"
    /\ UNCHANGED shut
    /\ IF method # "POST" THEN Respond(t, 405, "method not allowed") /\ UNCHANGED saved
       ELSE IF ok
       THEN /\ Respond(t, 200, "ok")
            /\ saved' = [i \in 1..Len(mcfg) |->
                  IF Lookup(mcfg[i].Name) # NoServer THEN config[Lookup(mcfg[i].Name)]
                  ELSE mcfg[i]]
       ELSE Respond(t, 500, "write failed") /\ UNCHANGED saved
    /\ UNCHANGED <<servers, mcfg, serversMu, nsrv, srvName, config, watchVars, procVars,
                   restartCh, stopCh, lastRestart, status, logs, spc, mpc, crashed, now,
                   appended>>

HandleSaveConfig(t, method, ok) ==
    /\ ~crashed /\ hpc[t] = "idle"
    /\ UNCHANGED shut
    /\ IF method # "POST" THEN Respond(t, 405, "method not allowed") /\ UNCHANGED saved
       ELSE IF ok THEN Respond(t, 200, "ok") /\ saved' = mcfg
       ELSE Respond(t, 500, "write failed") /\ UNCHANGED saved
    /\ UNCHANGED <<servers, mcfg, serversMu, nsrv, srvName, config, watchVars, procVars,
                   restartCh, stopCh, lastRestart, status, logs, spc, mpc, crashed, now,
                   appended>>

\* handleService with a method other than POST and DELETE
HandleServiceMethod(t, method) ==
    /\ ~crashed /\ hpc[t] = "idle"
    /\ method \notin {"POST", "DELETE"}
    /\ Respond(t, 405, "method not allowed")
    /\ UNCHANGED <<mgrVars, config, watchVars, procVars, restartCh, stopCh, lastRestart,
                   status, logs, spc, mpc, crashed, now, appended>>

\* handleStatus
HandleStatus(t, name) ==
    /\ ~crashed /\ hpc[t] = "idle"
    /\ IF name = "" THEN Respond(t, 400, "missing service")
       ELSE /\ serversMu = "none"
            /\ IF Lookup(name) = NoServer THEN Respond(t, 404, "not found")
               ELSE /\ ~MuHeld(Lookup(name))
                    /\ Respond(t, 200, status[Lookup(name)])
    /\ UNCHANGED <<mgrVars, config, watchVars, procVars, restartCh, stopCh, lastRestart,
                   status, logs, spc, mpc, crashed, now, appended>>

\* handleRestart up to the send on restartCh
HandleRestart(t, method, name) ==
    /\ ~crashed /\ hpc[t] = "idle"
    /\ IF method # "POST" THEN Respond(t, 405, "method not allowed")
       ELSE IF name = "" THEN Respond(t, 400, "missing service")
       ELSE /\ serversMu = "none"
            /\ IF Lookup(name) = NoServer THEN Respond(t, 404, "not found")
               ELSE Goto(t, "hr_send", Req("restart", Lookup(name), NoCfg, 200))
    /\ UNCHANGED <<mgrVars, config, watchVars, procVars, restartCh, stopCh, lastRestart,
                   status, logs, spc, mpc, crashed, now, appended>>

\* RestartSend sending the trigger to every supervisor that can take it
RestartSendAll(t) ==
    /\ restartCh[hreq[t].o] < ChanCap
    /\ restartCh' = [o \in Servers |->
          IF Made(o) /\ restartCh[o] < ChanCap THEN restartCh[o] + 1 ELSE restartCh[o]]
    /\ Log(hreq[t].o, <<Entry("info", "manual restart")>>)
    /\ Respond(t, 200, "ok")

\* handleRestart: s.restartCh <- struct{}{} (a blocking send), addLog, 200
RestartSend(t) ==
    /\ restartCh[hreq[t].o] < ChanCap
    /\ restartCh' = [restartCh EXCEPT ![hreq[t].o] = @ + 1]
    /\ Log(hreq[t].o, <<Entry("info", "manual restart")>>)
    /\ Respond(t, 200, "ok")

HrSend(t) ==
    /\ ~crashed /\ hpc[t] = "hr_send"
    /\ RestartSend(t)
    /\ UNCHANGED <<mgrVars, config, watchVars, procVars, stopCh, lastRestart, status,
                   spc, mpc, crashed, now>>

\* HandleStop without the test of getServer's result: stopProcess on a nil
\* DevServer
HandleStopNoNilCheck(t, method, name) ==
    /\ ~crashed /\ hpc[t] = "idle"
    /\ IF method # "POST" THEN Respond(t, 405, "method not allowed")
       ELSE IF name = "" THEN Respond(t, 400, "missing service")
       ELSE /\ serversMu = "none"
            /\ IF Lookup(name) = NoServer THEN Respond(t, -1, "nil dereference")
               ELSE Goto(t, "sp_check", Req("stop", Lookup(name), NoCfg, 200))
    /\ UNCHANGED <<mgrVars, config, watchVars, procVars, restartCh, stopCh, lastRestart,
                   status, logs, spc, mpc, crashed, now, appended>>

\* handleStop up to its call of s.stopProcess(), which takes no lock
HandleStop(t, method, name) ==
    /\ ~crashed /\ hpc[t] = "idle"
    /\ IF method # "POST" THEN Respond(t, 405, "method not allowed")
       ELSE IF name = "" THEN Respond(t, 400, "missing service")
       ELSE /\ serversMu = "none"
            /\ IF Lookup(name) = NoServer THEN Respond(t, 404, "not found")
               ELSE Goto(t, "sp_check", Req("stop", Lookup(name), NoCfg, 200))
    /\ UNCHANGED <<mgrVars, config, watchVars, procVars, restartCh, stopCh, lastRestart,
                   status, logs, spc, mpc, crashed, now, appended>>

\* where a handler goes on after stopProcess returned
HandlerAfterStop(ep) ==
    IF ep = "stop" THEN "hs_reply" ELSE IF ep = "delete" THEN "del_finish" ELSE "uoc_ret"

\* a panic in a handler: net/http recovers it and drops the connection; the
\* deferred Unlock of updateOrCreateServer runs, the plain Unlock of the
\* DELETE branch does not
HandlerPanic(t, what) ==
    /\ Respond(t, -1, what)
    /\ serversMu' = IF hreq[t].ep = "post" THEN "none"
                    ELSE IF hreq[t].ep = "delete" THEN "lost" ELSE serversMu

\* s.stopProcess() called by handleStop or by DevServer.Stop
HStopProcess(t) ==
    /\ ~crashed /\ hpc[t] \in StopPcs
    /\ \E nxt \in StepPcs :
          /\ StopProcessStep(hreq[t].o, hpc[t], nxt)
          /\ IF nxt = "sp_panic"
             THEN HandlerPanic(t, "nil dereference")
             ELSE /\ Goto(t, IF nxt = "sp_ret" THEN HandlerAfterStop(hreq[t].ep) ELSE nxt,
                          hreq[t])
                  /\ UNCHANGED serversMu
    /\ UNCHANGED <<servers, mcfg, nsrv, srvName, config, watchVars, restartCh, stopCh,
                   lastRestart, spc, mpc, crashed, now, saved, shut>>

\* handleStop: addLog and 200
HStopReply(t) ==
    /\ ~crashed /\ hpc[t] = "hs_reply"
    /\ Log(hreq[t].o, <<Entry("info", "manual stop")>>)
    /\ Respond(t, 200, "ok")
    /\ UNCHANGED <<mgrVars, config, watchVars, procVars, restartCh, stopCh, lastRestart,
                   status, spc, mpc, crashed, now>>

\* DevServer.Stop: close(s.stopCh); closing a closed channel panics
StopClose(t) ==
    IF stopCh[hreq[t].o]
    THEN HandlerPanic(t, "close of closed channel") /\ UNCHANGED stopCh
    ELSE /\ stopCh' = [stopCh EXCEPT ![hreq[t].o] = TRUE]
         /\ Goto(t, "st_watch", hreq[t])
         /\ UNCHANGED serversMu

HStopClose(t) ==
    /\ ~crashed /\ hpc[t] = "st_close"
    /\ StopClose(t)
    /\ UNCHANGED <<servers, mcfg, nsrv, srvName, config, watchVars, procVars, restartCh,
                   lastRestart, status, logs, spc, mpc, crashed, now, appended, saved, shut>>

\* DevServer.Stop: if s.watcher != nil { s.watcher.Close() }
HStopWatch(t) ==
    /\ ~crashed /\ hpc[t] = "st_watch"
    /\ watcher' = [watcher EXCEPT ![hreq[t].o] = IF @ = "nil" THEN @ ELSE "closed"]
    /\ evq' = [evq EXCEPT ![hreq[t].o] = IF watcher[hreq[t].o] = "nil" THEN @ ELSE <<>>]
    /\ Goto(t, "sp_check", hreq[t])
    /\ UNCHANGED <<mgrVars, config, watched, wfpc, wakeAt, lastEvent, procVars, restartCh,
                   stopCh, lastRestart, status, logs, spc, mpc, crashed, now, appended, rewatch>>

\* ------------------------------------------------------------ DevManager.Stop
\* DevManager.Start: the signal arrives or the context is cancelled
MgrSignal ==
    /\ ~crashed /\ shut.pc = "run"
    /\ shut' = [shut EXCEPT !.pc = "lock"]
    /\ UNCHANGED <<servers, mcfg, saved, serversMu, nsrv, srvName, config, watchVars,
                   procVars, restartCh, stopCh, lastRestart, status, logs, spc, mpc,
                   httpVars, crashed, now, appended>>

\* DevManager.Stop: m.serversMu.RLock()
MgrStopLock ==
    /\ ~crashed /\ shut.pc = "lock"
    /\ serversMu = "none"
    /\ serversMu' = "main"
    /\ shut' = [shut EXCEPT !.pc = "range"]
    /\ UNCHANGED <<servers, mcfg, saved, nsrv, srvName, config, watchVars, procVars,
                   restartCh, stopCh, lastRestart, status, logs, spc, mpc, httpVars,
                   crashed, now, appended>>

\* the supervisors of m.servers the range loop has not visited
Unvisited == {servers[n] : n \in Names} \ ({NoServer} \cup shut.seen)

\* DevManager.Stop: the range over m.servers, in any order, then
\* httpServer.Shutdown, the deferred RUnlock and the return
MgrStopRange ==
    /\ ~crashed /\ shut.pc = "range"
    /\ IF Unvisited # {}
       THEN /\ \E o \in Unvisited : shut' = [shut EXCEPT !.pc = "st_close", !.o = o]
            /\ UNCHANGED serversMu
       ELSE /\ shut' = [shut EXCEPT !.pc = "ret", !.o = NoServer]
            /\ serversMu' = "none"
    /\ UNCHANGED <<servers, mcfg, saved, nsrv, srvName, config, watchVars, procVars,
                   restartCh, stopCh, lastRestart, status, logs, spc, mpc, httpVars,
                   crashed, now, appended>>

\* DevServer.Stop called by DevManager.Stop: close(s.stopCh); the panic of
\* closing a closed channel ends the program
MgrStopClose ==
    /\ ~crashed /\ shut.pc = "st_close"
    /\ IF stopCh[shut.o]
       THEN crashed' = TRUE /\ UNCHANGED <<stopCh, shut>>
       ELSE /\ stopCh' = [stopCh EXCEPT ![shut.o] = TRUE]
            /\ shut' = [shut EXCEPT !.pc = "st_watch"]
            /\ UNCHANGED crashed
    /\ UNCHANGED <<servers, mcfg, saved, serversMu, nsrv, srvName, config, watchVars,
                   procVars, restartCh, lastRestart, status, logs, spc, mpc, httpVars,
                   now, appended>>

\* DevServer.Stop called by DevManager.Stop: s.watcher.Close()
MgrStopWatch ==
    /\ ~crashed /\ shut.pc = "st_watch"
    /\ watcher' = [watcher EXCEPT ![shut.o] = IF @ = "nil" THEN @ ELSE "closed"]
    /\ evq' = [evq EXCEPT ![shut.o] = IF watcher[shut.o] = "nil" THEN @ ELSE <<>>]
    /\ shut' = [shut EXCEPT !.pc = "sp_check"]
    /\ UNCHANGED <<servers, mcfg, saved, serversMu, nsrv, srvName, config, watched, wfpc,
                   wakeAt, lastEvent, rewatch, procVars, restartCh, stopCh, lastRestart,
                   status, logs, spc, mpc, httpVars, crashed, now, appended>>

\* DevServer.Stop called by DevManager.Stop: s.stopProcess(), without s.mu
MgrStopProcess ==
    /\ ~crashed /\ shut.pc \in StopPcs
    /\ \E nxt \in StepPcs :
          /\ StopProcessStep(shut.o, shut.pc, nxt)
          /\ crashed' = (nxt = "sp_panic")
          /\ shut' = IF nxt = "sp_panic" THEN shut
                     ELSE IF nxt = "sp_ret"
                     THEN [shut EXCEPT !.pc = "range", !.seen = @ \cup {shut.o}]
                     ELSE [shut EXCEPT !.pc = nxt]
    /\ UNCHANGED <<servers, mcfg, saved, serversMu, nsrv, srvName, config, watchVars,
                   restartCh, stopCh, lastRestart, spc, mpc, httpVars, now>>

\* ------------------------------------------------------------ /api/service
\* the index of the first entry of the configuration list named name (0: none)
IndexOf(cfgs, name) ==
    IF \E i \in 1..Len(cfgs) : cfgs[i].Name = name
    THEN CHOOSE i \in 1..Len(cfgs) :
            cfgs[i].Name = name /\ \A j \in 1..(i - 1) : cfgs[j].Name # name
    ELSE 0

\* append(Services[:i], Services[i+1:]...)
RemoveAt(cfgs, i) == SubSeq(cfgs, 1, i - 1) \o SubSeq(cfgs, i + 1, Len(cfgs))

\* HandlePostService without the test for an empty service name
HandlePostServiceNoNameCheck(t, wellFormed, cfg) ==
    /\ ~crashed /\ hpc[t] = "idle"
    /\ IF ~wellFormed THEN Respond(t, 400, "bad body") /\ UNCHANGED mcfg
       ELSE IF IndexOf(mcfg, cfg.Name) # 0
       THEN /\ mcfg' = [mcfg EXCEPT ![IndexOf(mcfg, cfg.Name)] = cfg]
            /\ Goto(t, "uoc_lock", Req("post", NoServer, cfg, 200))
       ELSE /\ mcfg' = Append(mcfg, cfg)
            /\ Goto(t, "uoc_lock", Req("post", NoServer, cfg, 201))
    /\ UNCHANGED <<servers, saved, shut, serversMu, nsrv, srvName, config, watchVars, procVars,
                   restartCh, stopCh, lastRestart, status, logs, spc, mpc, crashed, now,
                   appended>>

\* HandlePostService without the search of the list for the name
HandlePostServiceAppend(t, wellFormed, cfg) ==
    /\ ~crashed /\ hpc[t] = "idle"
    /\ IF ~wellFormed THEN Respond(t, 400, "bad body") /\ UNCHANGED mcfg
       ELSE IF cfg.Name = "" THEN Respond(t, 400, "empty name") /\ UNCHANGED mcfg
       ELSE /\ mcfg' = Append(mcfg, cfg)
            /\ Goto(t, "uoc_lock", Req("post", NoServer, cfg, 201))
    /\ UNCHANGED <<servers, serversMu, nsrv, srvName, config, watchVars, procVars,
                   restartCh, stopCh, lastRestart, status, logs, spc, mpc, crashed, now,
                   appended, saved, shut>>

\* handleService POST: decode the body, then the section under configMu
HandlePostService(t, wellFormed, cfg) ==
    /\ ~crashed /\ hpc[t] = "idle"
    /\ IF ~wellFormed THEN Respond(t, 400, "bad body") /\ UNCHANGED mcfg
       ELSE IF cfg.Name = "" THEN Respond(t, 400, "empty name") /\ UNCHANGED mcfg
       ELSE IF IndexOf(mcfg, cfg.Name) # 0
       THEN /\ mcfg' = [mcfg EXCEPT ![IndexOf(mcfg, cfg.Name)] = cfg]
            /\ Goto(t, "uoc_lock", Req("post", NoServer, cfg, 200))
       ELSE /\ mcfg' = Append(mcfg, cfg)
            /\ Goto(t, "uoc_lock", Req("post", NoServer, cfg, 201))
    /\ UNCHANGED <<servers, serversMu, nsrv, srvName, config, watchVars, procVars,
                   restartCh, stopCh, lastRestart, status, logs, spc, mpc, crashed, now,
                   appended, saved, shut>>

\* updateOrCreateServer: m.serversMu.Lock()
UocLock(t) ==
    /\ ~crashed /\ hpc[t] = "uoc_lock"
    /\ serversMu = "none"
    /\ serversMu' = t
    /\ Goto(t, "uoc_apply", [hreq[t] EXCEPT !.o = Lookup(hreq[t].cfg.Name)])
    /\ UNCHANGED <<servers, mcfg, nsrv, srvName, config, watchVars, procVars, restartCh,
                   stopCh, lastRestart, status, logs, spc, mpc, crashed, now, appended, saved, shut>>

\* NewDevServer(name, cfg), entered in m.servers, and go server.Start
CreateServer(o, cfg) ==
    /\ nsrv' = o
    /\ servers' = [servers EXCEPT ![cfg.Name] = o]
    /\ srvName' = [srvName EXCEPT ![o] = cfg.Name]
    /\ config' = [config EXCEPT ![o] = cfg]
    /\ status' = [status EXCEPT ![o] = "stopped"]
    /\ spc' = [spc EXCEPT ![o] = "new"]

\* updateOrCreateServer: the branch on m.servers[cfg.Name]
UocApply(t) ==
    /\ ~crashed /\ hpc[t] = "uoc_apply"
    /\ LET o == hreq[t].o
           cfg == hreq[t].cfg
       IN IF o # NoServer
          THEN /\ ~MuHeld(o)
               /\ config' = [config EXCEPT ![o] = cfg]
               /\ Goto(t, IF cfg.Enabled THEN "uoc_ret" ELSE "st_close", hreq[t])
               /\ UNCHANGED <<servers, nsrv, srvName, status, spc, saved, shut>>
          ELSE IF cfg.Enabled
          THEN /\ nsrv < MaxServers
               /\ cfg.Name \in Names
               /\ CreateServer(nsrv + 1, cfg)
               /\ Goto(t, "uoc_ret", hreq[t])
          ELSE /\ Goto(t, "uoc_ret", hreq[t])
               /\ UNCHANGED <<servers, nsrv, srvName, config, status, spc, saved, shut>>
    /\ UNCHANGED <<mcfg, serversMu, watchVars, procVars, restartCh, stopCh, lastRestart,
                   logs, mpc, crashed, now, appended, saved, shut>>

\* updateOrCreateServer returns (the deferred Unlock), then 200 or 201
UocReturn(t) ==
    /\ ~crashed /\ hpc[t] = "uoc_ret"
    /\ serversMu' = "none"
    /\ Respond(t, hreq[t].code, "ok")
    /\ UNCHANGED <<servers, mcfg, nsrv, srvName, config, watchVars, procVars, restartCh,
                   stopCh, lastRestart, status, logs, spc, mpc, crashed, now, appended, saved, shut>>

\* handleService DELETE: the section under configMu
HandleDeleteService(t, name) ==
    /\ ~crashed /\ hpc[t] = "idle"
    /\ IF name = "" THEN Respond(t, 400, "missing name") /\ UNCHANGED mcfg
       ELSE IF IndexOf(mcfg, name) = 0 THEN Respond(t, 404, "not found") /\ UNCHANGED mcfg
       ELSE /\ mcfg' = RemoveAt(mcfg, IndexOf(mcfg, name))
            /\ Goto(t, "del_lock", Req("delete", NoServer, [NoCfg EXCEPT !.Name = name], 200))
    /\ UNCHANGED <<servers, serversMu, nsrv, srvName, config, watchVars, procVars,
                   restartCh, stopCh, lastRestart, status, logs, spc, mpc, crashed, now,
                   appended, saved, shut>>

\* handleService DELETE: m.serversMu.Lock() and the lookup
DelLock(t) ==
    /\ ~crashed /\ hpc[t] = "del_lock"
    /\ serversMu = "none"
    /\ serversMu' = t
    /\ Goto(t, IF Lookup(hreq[t].cfg.Name) # NoServer THEN "st_close" ELSE "del_finish",
            [hreq[t] EXCEPT !.o = Lookup(hreq[t].cfg.Name)])
    /\ UNCHANGED <<servers, mcfg, nsrv, srvName, config, watchVars, procVars, restartCh,
                   stopCh, lastRestart, status, logs, spc, mpc, crashed, now, appended, saved, shut>>

\* handleService DELETE: delete(m.servers, name), Unlock, 200
DelFinish(t) ==
    /\ ~crashed /\ hpc[t] = "del_finish"
    /\ servers' = [n \in Names |->
          IF n = hreq[t].cfg.Name /\ hreq[t].o # NoServer THEN NoServer ELSE servers[n]]
    /\ serversMu' = "none"
    /\ Respond(t, 200, "ok")
    /\ UNCHANGED <<mcfg, nsrv, srvName, config, watchVars, procVars, restartCh, stopCh,
                   lastRestart, status, logs, spc, mpc, crashed, now, appended, saved, shut>>

\* ------------------------------------------------------------ clock
Tick ==
    /\ now < MaxTime
    /\ now' = now + 1
    /\ UNCHANGED <<mgrVars, config, watchVars, procVars, restartCh, stopCh, lastRestart,
                   status, logs, spc, mpc, httpVars, crashed, appended>>

\* ------------------------------------------------------------ specifications
\* One supervisor driven by restart triggers only: the initial trigger, file
\* changes and POST /api/restart.
TriggerCfgs ==
    {Cfg("a", <<"make">>, <<"run">>, 0, 0, TRUE), Cfg("a", <<"make">>, <<" ">>, 0, 0, TRUE),
     Cfg("a", <<>>, <<>>, 0, 0, TRUE)}

TriggerEvents == {Event(FileMG, "Write", FALSE), Event(FileMX, "Write", FALSE)}

Init == \E cfg \in TriggerCfgs : InitSys(<<cfg>>, FALSE)

WatchNext(o, evs) ==
    \/ \E ev \in evs : FsEvent(o, ev)
    \/ WfEvent(o)
    \/ WfSend(o)

CycleNext(o) ==
    \/ MpReceive(o)
    \/ MpStopProcess(o)
    \/ MpBuild(o)
    \/ \E ok \in BOOLEAN : MpBuildEnd(o, ok)
    \/ MpRun(o)
    \/ \E ok \in BOOLEAN : MpStart(o, ok)

ChildNext(c) ==
    \/ \E ok \in BOOLEAN : ChildExit(c, ok)
    \/ ChildWrite(c)
    \/ MonitorExit(c)

Next ==
    \/ \E o \in Servers : StartBegin(o) \/ StartSend(o)
    \/ \E o \in Servers : WatchNext(o, TriggerEvents)
    \/ \E o \in Servers : CycleNext(o)
    \/ \E c \in Children : ChildNext(c)
    \/ \E t \in Serial : HandleRestart(t, "POST", "a") \/ HrSend(t)

Spec == Init /\ [][Next]_vars

\* One supervisor with POST /api/stop beside the restart triggers.
CfgRun(enabled) == Cfg("a", <<"make">>, <<"run">>, 0, 0, enabled)

InitControl == InitSys(<<CfgRun(TRUE)>>, FALSE)

NextStop ==
    \/ \E o \in Servers : StartBegin(o) \/ StartSend(o)
    \/ \E o \in Servers : CycleNext(o)
    \/ \E c \in Children : ChildNext(c)
    \/ \E t \in Serial : HandleRestart(t, "POST", "a") \/ HrSend(t)
    \/ \E t \in Serial : HandleStop(t, "POST", "a") \/ HStopProcess(t) \/ HStopReply(t)

SpecStop == InitControl /\ [][NextStop]_vars

\* One supervisor with POST and DELETE /api/service (disable, remove) beside
\* the restart triggers.
StopNext(t) ==
    \/ HStopClose(t)
    \/ HStopWatch(t)
    \/ HStopProcess(t)

ServiceNext(t) ==
    \/ HandlePostService(t, TRUE, CfgRun(FALSE))
    \/ UocLock(t)
    \/ UocApply(t)
    \/ UocReturn(t)
    \/ HandleDeleteService(t, "a")
    \/ DelLock(t)
    \/ DelFinish(t)

NextService ==
    \/ \E o \in Servers : StartBegin(o) \/ StartSend(o) \/ StartReturn(o)
    \/ \E o \in Servers : WfStop(o) \/ MpStop(o)
    \/ \E o \in Servers : CycleNext(o)
    \/ \E c \in Children : ChildNext(c)
    \/ \E t \in Serial : HandleRestart(t, "POST", "a") \/ HrSend(t)
    \/ \E t \in Serial : StopNext(t)
    \/ \E t \in Serial : ServiceNext(t)

SpecService == InitControl /\ [][NextService]_vars

\* One supervisor with a restart delay of two clock ticks and nothing to
\* build or run: file changes, the clock and the restart loop.
DelayMs == 2

InitTimed == InitSys(<<Cfg("a", <<>>, <<>>, DelayMs, 0, TRUE)>>, FALSE)

NextTimed ==
    \/ Tick
    \/ \E o \in Servers : StartBegin(o) \/ StartSend(o)
    \/ \E o \in Servers : WatchNext(o, TriggerEvents)
    \/ \E o \in Servers : MpReceive(o) \/ MpStopProcess(o) \/ MpBuild(o) \/ MpRun(o)

SpecTimed == InitTimed /\ [][NextTimed]_vars

\* One supervisor whose addLog calls are recorded: restart cycles, file
\* changes, watcher errors, child output and exits.
InitLog ==
    \E n \in 0..MaxLogLines : InitSys(<<Cfg("a", <<"make">>, <<"run">>, 0, n, TRUE)>>, TRUE)

NextLog ==
    \/ \E o \in Servers : StartBegin(o) \/ StartSend(o)
    \/ \E o \in Servers : WatchNext(o, {Event(FileMG, "Write", FALSE)}) \/ WfError(o)
    \/ \E o \in Servers : CycleNext(o)
    \/ \E c \in Children : ChildNext(c)

SpecLog == InitLog /\ [][NextLog]_vars

\* One supervisor with nothing to build or run, and the requests of the
\* control plane that validate their method, service parameter and body.
ApiCfg == Cfg("a", <<>>, <<>>, 0, 0, TRUE)
Methods == {"GET", "POST", "PUT", "DELETE"}
QueryNames == {"", "a", "zz"}
ConfigBodies ==
    {ApiCfg, [ApiCfg EXCEPT !.WatchDirs = <<>>], [ApiCfg EXCEPT !.Name = "b"]}

ConfigNext(t) ==
    \/ \E m \in Methods, n \in QueryNames, wf \in BOOLEAN, cfg \in ConfigBodies :
          HandleConfig(t, m, n, wf, cfg)
    \/ HcGet(t)
    \/ HcSet(t)

QueryNext(t) ==
    \/ \E n \in QueryNames : HandleLogs(t, n) \/ HandleStatus(t, n)
    \/ \E m \in Methods, n \in QueryNames : HandleRestart(t, m, n) \/ HandleStop(t, m, n)
    \/ HrSend(t)
    \/ HStopProcess(t)
    \/ HStopReply(t)

RejectNext(t) ==
    \/ \E m \in Methods : HandleServiceMethod(t, m)
    \/ \E m \in Methods, ok \in BOOLEAN : HandleSaveConfig(t, m, ok)
    \/ \E wf \in BOOLEAN, n \in {"", "a"} :
          (~wf \/ n = "") /\ HandlePostService(t, wf, [ApiCfg EXCEPT !.Name = n])

NextApi ==
    \/ \E o \in Servers : StartBegin(o) \/ StartSend(o)
    \/ \E o \in Servers : MpReceive(o) \/ MpStopProcess(o) \/ MpBuild(o) \/ MpRun(o)
    \/ \E o \in Servers : ReloadWatch(o)
    \/ \E t \in Serial : ConfigNext(t)
    \/ \E t \in Serial : QueryNext(t)
    \/ \E t \in Serial : RejectNext(t)

InitApi == InitSys(<<ApiCfg>>, FALSE)

SpecApi == InitApi /\ [][NextApi]_vars

\* Two services in the configuration file, POST /api/service with enabled
\* specs and GET /api/config.
SvcA == Cfg("a", <<>>, <<>>, 0, 0, TRUE)
SvcB == [Cfg("b", <<>>, <<>>, 0, 0, TRUE) EXCEPT !.Port = 1, !.WatchExts = <<WildcardExt>>]

StartLists == {<<SvcA, SvcB>>, <<SvcB, SvcA>>, <<[SvcA EXCEPT !.Enabled = FALSE], SvcB>>}

PartDoc == Doc({"name", "port", "enabled"}, [SvcB EXCEPT !.Port = 2])
RoundDocs == {Doc(JsonKeys, [SvcA EXCEPT !.Port = 2]), PartDoc}

InitRound == \E cfgs \in StartLists : InitSys(cfgs, FALSE)

NextRound ==
    \/ \E o \in Servers : StartBegin(o) \/ StartSend(o)
    \/ \E o \in Servers : MpReceive(o) \/ MpStopProcess(o) \/ MpBuild(o) \/ MpRun(o)
    \/ \E t \in Serial, d \in RoundDocs : HandlePostService(t, TRUE, Decode(d))
    \/ \E t \in Serial : UocLock(t) \/ UocApply(t) \/ UocReturn(t)
    \/ \E t \in Serial, n \in Names : HandleConfig(t, "GET", n, TRUE, NoCfg)
    \/ \E t \in Serial : HcGet(t)

SpecRound == InitRound /\ [][NextRound]_vars

\* One supervisor with nothing to build or run, for every ignore list and
\* extension list, and the file events of its watcher.
IgnoreLists == {<<>>, <<IgnV>>, <<<<"p">>, IgnV>>}
ExtLists == {<<ExtG>>, <<WildcardExt>>}

FilePMG == <<"p", "/", "m", ".", "g">>
DirQ == <<"q">>
DirVQ == <<"v", "q">>

WatchEvents ==
    {Event(FileMG, "Write", FALSE), Event(FileMX, "Create", FALSE),
     Event(FileVG, "Write", FALSE), Event(FilePMG, "Remove", FALSE),
     Event(FileMG, "Chmod", FALSE), Event(DirQ, "Create", TRUE),
     Event(DirVQ, "Create", TRUE)}

InitWatch ==
    \E ign \in IgnoreLists, exts \in ExtLists :
        InitSys(<<[Cfg("a", <<>>, <<>>, 0, 0, TRUE) EXCEPT
                       !.IgnoreDirs = ign, !.WatchExts = exts]>>, TRUE)

NextWatch ==
    \/ \E o \in Servers : StartBegin(o) \/ StartSend(o)
    \/ \E o \in Servers : WatchNext(o, WatchEvents)
    \/ \E o \in Servers : MpReceive(o) \/ MpStopProcess(o) \/ MpBuild(o) \/ MpRun(o)

SpecWatch == InitWatch /\ [][NextWatch]_vars

\* One service with nothing to build or run, disabled and enabled again
\* through POST /api/service.
EnableNext(t) ==
    \/ \E enabled \in BOOLEAN : HandlePostService(t, TRUE, [SvcA EXCEPT !.Enabled = enabled])
    \/ UocLock(t)
    \/ UocApply(t)
    \/ UocReturn(t)

NextEnable ==
    \/ \E o \in Servers : StartBegin(o) \/ StartSend(o) \/ StartReturn(o)
    \/ \E o \in Servers : WfStop(o) \/ MpStop(o)
    \/ \E o \in Servers : MpReceive(o) \/ MpStopProcess(o) \/ MpBuild(o) \/ MpRun(o)
    \/ \E t \in Serial : StopNext(t)
    \/ \E t \in Serial : EnableNext(t)

SpecEnable == InitSys(<<SvcA>>, FALSE) /\ [][NextEnable]_vars

\* One supervisor after Start, with no file change and no request: the
\* goroutines of Start and manageProcess are scheduled whenever they can run.
NextStart ==
    \/ \E o \in Servers : StartBegin(o) \/ StartSend(o)
    \/ \E o \in Servers : CycleNext(o)
    \/ \E c \in Children : ChildNext(c)

InitStart ==
    \E cfg \in TriggerCfgs, n \in 0..MaxLogLines :
        InitSys(<<[cfg EXCEPT !.LogMaxLines = n]>>, FALSE)

SpecStartFair ==
    /\ InitStart
    /\ [][NextStart]_vars
    /\ \A o \in Servers :
          WF_vars(StartBegin(o)) /\ WF_vars(StartSend(o)) /\ WF_vars(MpReceive(o))

\* One service with a run command, disabled through POST /api/service, and
\* the shutdown of the manager.
SvcRun == Cfg("a", <<>>, <<"run">>, 0, 0, TRUE)

ShutdownPosts == {[SvcRun EXCEPT !.Enabled = FALSE]}

MgrNext ==
    \/ MgrSignal
    \/ MgrStopLock
    \/ MgrStopRange
    \/ MgrStopClose
    \/ MgrStopWatch
    \/ MgrStopProcess

NextShutdown ==
    \/ \E o \in Servers : StartBegin(o) \/ StartSend(o) \/ StartReturn(o)
    \/ \E o \in Servers : WfStop(o) \/ MpStop(o)
    \/ \E o \in Servers : MpReceive(o) \/ MpStopProcess(o) \/ MpBuild(o) \/ MpRun(o)
    \/ \E o \in Servers, ok \in BOOLEAN : MpStart(o, ok)
    \/ \E c \in Children : ChildNext(c)
    \/ \E t \in Serial, cfg \in ShutdownPosts : HandlePostService(t, TRUE, cfg)
    \/ \E t \in Serial : UocLock(t) \/ UocApply(t) \/ UocReturn(t)
    \/ \E t \in Serial : StopNext(t)
    \/ MgrNext

SpecShutdown == InitSys(<<SvcRun>>, FALSE) /\ [][NextShutdown]_vars

\* One service with a build and a run command whose configuration is replaced
\* through POST/PUT /api/config and POST /api/service, beside POST
\* /api/restart.
ReplaceBodies == {[CfgRun(TRUE) EXCEPT !.Port = 2], [CfgRun(TRUE) EXCEPT !.WatchDirs = <<>>]}

ReplaceNext(t) ==
    \/ \E m \in {"POST", "PUT"}, cfg \in ReplaceBodies : HandleConfig(t, m, "a", TRUE, cfg)
    \/ HcSet(t)
    \/ \E cfg \in ReplaceBodies : HandlePostService(t, TRUE, cfg)
    \/ UocLock(t)
    \/ UocApply(t)
    \/ UocReturn(t)

NextReplace ==
    \/ \E o \in Servers : StartBegin(o) \/ StartSend(o)
    \/ \E o \in Servers : CycleNext(o)
    \/ \E c \in Children : ChildNext(c)
    \/ \E o \in Servers : ReloadWatch(o)
    \/ \E t \in Serial : HandleRestart(t, "POST", "a") \/ HrSend(t)
    \/ \E t \in Serial : ReplaceNext(t)

SpecReplace == InitControl /\ [][NextReplace]_vars

\* Two services: a, with nothing to build or run, is named by the requests
\* of the control plane; b runs a child process beside it.
SvcRunB == Cfg("b", <<>>, <<"run">>, 0, 0, TRUE)

TwoBodies == {[SvcA EXCEPT !.Port = 2], [SvcA EXCEPT !.Enabled = FALSE]}

TwoNext(t) ==
    \/ HandleRestart(t, "POST", "a")
    \/ HrSend(t)
    \/ HandleStop(t, "POST", "a")
    \/ HStopReply(t)
    \/ \E cfg \in TwoBodies : HandleConfig(t, "POST", "a", TRUE, cfg)
    \/ HcSet(t)
    \/ \E cfg \in TwoBodies : HandlePostService(t, TRUE, cfg)
    \/ UocLock(t)
    \/ UocApply(t)
    \/ UocReturn(t)
    \/ HandleDeleteService(t, "a")
    \/ DelLock(t)
    \/ DelFinish(t)

NextTwo ==
    \/ \E o \in Servers : StartBegin(o) \/ StartSend(o)
    \/ \E o \in Servers : MpReceive(o) \/ MpStopProcess(o) \/ MpBuild(o) \/ MpRun(o)
    \/ \E o \in Servers : MpStart(o, TRUE)
    \/ \E c \in Children : ChildNext(c)
    \/ \E t \in Serial : StopNext(t)
    \/ \E t \in Serial : TwoNext(t)

SpecTwo == InitSys(<<SvcA, SvcRunB>>, FALSE) /\ [][NextTwo]_vars

\* One service with a build and a run command, and the requests that read
\* its state or post its spec again.
ReadNext(t) ==
    \/ HandleStatus(t, "a")
    \/ HandleServices(t)
    \/ HandleConfig(t, "GET", "a", TRUE, NoCfg)
    \/ HcGet(t)
    \/ HandlePostService(t, TRUE, CfgRun(TRUE))
    \/ UocLock(t)
    \/ UocApply(t)
    \/ UocReturn(t)

NextRead ==
    \/ \E o \in Servers : StartBegin(o) \/ StartSend(o)
    \/ \E o \in Servers : CycleNext(o)
    \/ \E c \in Children : ChildNext(c)
    \/ \E t \in Serial : ReadNext(t)

SpecRead == InitControl /\ [][NextRead]_vars

\* Two services with a build command each, restarted through POST
\* /api/restart. The goroutines of b are scheduled whenever they can run and
\* the build of b ends; nothing is assumed of a, whose build may run forever.
SvcBuildA == Cfg("a", <<"make">>, <<>>, 0, 0, TRUE)
SvcBuildB == Cfg("b", <<"make">>, <<>>, 0, 0, TRUE)

NextIndep ==
    \/ \E o \in Servers : StartBegin(o) \/ StartSend(o)
    \/ \E o \in Servers : MpReceive(o) \/ MpStopProcess(o) \/ MpBuild(o) \/ MpRun(o)
    \/ \E o \in Servers, ok \in BOOLEAN : MpBuildEnd(o, ok)
    \/ \E t \in Serial, n \in Names : HandleRestart(t, "POST", n)
    \/ \E t \in Serial : HrSend(t)

FairCycle(o) ==
    /\ WF_vars(StartBegin(o)) /\ WF_vars(StartSend(o))
    /\ WF_vars(MpReceive(o)) /\ WF_vars(MpStopProcess(o))
    /\ WF_vars(MpBuild(o)) /\ WF_vars(MpRun(o))
    /\ WF_vars(\E ok \in BOOLEAN : MpBuildEnd(o, ok))

SpecIndepFair ==
    /\ InitSys(<<SvcBuildA, SvcBuildB>>, FALSE)
    /\ [][NextIndep]_vars
    /\ FairCycle(2)

\* One service that watches the directory p, with nothing to build or run,
\* whose spec is replaced through POST /api/config and POST /api/service by
\* one that watches the root or by one that watches p.
SvcWatchP == [SvcA EXCEPT !.WatchDirs = <<<<"p">>>>]

RewatchBodies == {SvcA, [SvcWatchP EXCEPT !.Port = 2]}

NextRewatch ==
    \/ \E o \in Servers : StartBegin(o) \/ StartSend(o)
    \/ \E o \in Servers : MpReceive(o) \/ MpStopProcess(o) \/ MpBuild(o) \/ MpRun(o)
    \/ \E o \in Servers : ReloadWatch(o)
    \/ \E t \in Serial, cfg \in RewatchBodies : HandleConfig(t, "POST", "a", TRUE, cfg)
    \/ \E t \in Serial : HcSet(t)
    \/ \E t \in Serial, cfg \in RewatchBodies : HandlePostService(t, TRUE, cfg)
    \/ \E t \in Serial : UocLock(t) \/ UocApply(t) \/ UocReturn(t)

SpecRewatch == InitSys(<<SvcWatchP>>, FALSE) /\ [][NextRewatch]_vars

\* One service with nothing to build or run: its spec is replaced through
\* POST /api/config, services are posted and deleted through /api/service,
\* and the configuration is saved.
SaveConfigBody == [SvcA EXCEPT !.RunArgs = <<"x">>]

SavePosts == {[SvcA EXCEPT !.Port = 2], SvcB}

NextSave ==
    \/ \E o \in Servers : StartBegin(o) \/ StartSend(o)
    \/ \E o \in Servers : MpReceive(o) \/ MpStopProcess(o) \/ MpBuild(o) \/ MpRun(o)
    \/ \E t \in Serial : HandleConfig(t, "POST", "a", TRUE, SaveConfigBody)
    \/ \E t \in Serial : HcSet(t)
    \/ \E t \in Serial, cfg \in SavePosts : HandlePostService(t, TRUE, cfg)
    \/ \E t \in Serial : UocLock(t) \/ UocApply(t) \/ UocReturn(t)
    \/ \E t \in Serial : HandleDeleteService(t, "a") \/ DelLock(t) \/ DelFinish(t)
    \/ \E t \in Serial : StopNext(t)
    \/ \E t \in Serial, ok \in BOOLEAN : HandleSaveConfig(t, "POST", ok)

SpecSave == InitSys(<<SvcA>>, FALSE) /\ [][NextSave]_vars

\* Two clients at once on POST and DELETE /api/service: each request runs on
\* a handler goroutine of its own. The restart cycles of the supervisors are
\* left unscheduled: they touch neither the list nor the registry.
ConcPosts == {SvcB}

NextConc ==
    \/ \E o \in Servers : StartBegin(o) \/ StartSend(o)
    \/ \E t \in Threads, cfg \in ConcPosts : HandlePostService(t, TRUE, cfg)
    \/ \E t \in Threads : UocLock(t) \/ UocApply(t) \/ UocReturn(t)
    \/ \E t \in Threads, n \in Names : HandleDeleteService(t, n)
    \/ \E t \in Threads : DelLock(t) \/ DelFinish(t)
    \/ \E t \in Threads : StopNext(t)

SpecConc == InitSys(<<SvcA>>, FALSE) /\ [][NextConc]_vars

\* One supervisor with nothing to build or run and a log buffer of
\* MaxLogLines entries, whose configuration is replaced by one with another
\* log_max_lines through POST /api/config and POST /api/service.
SvcLog(n) == Cfg("a", <<>>, <<>>, 0, n, TRUE)

TrimBodies == {SvcLog(n) : n \in 0..MaxLogLines}

NextTrim ==
    \/ \E o \in Servers : StartBegin(o) \/ StartSend(o)
    \/ \E o \in Servers : MpReceive(o) \/ MpStopProcess(o) \/ MpBuild(o) \/ MpRun(o)
    \/ \E t \in Serial : HandleRestart(t, "POST", "a") \/ HrSend(t)
    \/ \E t \in Serial, cfg \in TrimBodies : HandleConfig(t, "POST", "a", TRUE, cfg)
    \/ \E t \in Serial : HcSet(t)
    \/ \E t \in Serial, cfg \in TrimBodies : HandlePostService(t, TRUE, cfg)
    \/ \E t \in Serial : UocLock(t) \/ UocApply(t) \/ UocReturn(t)

SpecTrim == InitSys(<<SvcLog(MaxLogLines)>>, FALSE) /\ [][NextTrim]_vars

\* ------------------------------------------------------------ claims
LiveOf(o) == {c \in Children : owner[c] = o /\ Live(c)}
LiveOfName(n) == {c \in Children : Live(c) /\ owner[c] # NoServer /\ srvName[owner[c]] = n}

\* C1: with restart triggers only, the build and the spawn of a restart cycle
\* run while no child of the supervisor is live, and a supervisor never has
\* two live children.
C1_RestartsSerialized ==
    \A o \in Servers :
        /\ Cardinality(LiveOf(o)) <= 1
        /\ mpc[o] \in {"build", "building", "run", "start"} => LiveOf(o) = {}

\* a cycle is about to spawn after it killed the child of the cycle before
C1_Witness ==
    \E o \in Servers : \E c \in Children :
        mpc[o] = "start" /\ owner[c] = o /\ childSt[c] = "exit1" /\ mon[c]

\* C2: each service has at most one live child, and the supervisor's cmd
\* holds every live child of it.
C2_OneLiveChild ==
    /\ \A n \in Names : Cardinality(LiveOfName(n)) <= 1
    /\ \A c \in Children : Live(c) => cmd[owner[c]] = c

\* C3: once DevServer.Stop has returned and the supervisor is removed, it has
\* no live child.
Removed(o) == Made(o) /\ servers[srvName[o]] # o

C3_StopKillsChild == \A o \in Servers : Removed(o) => LiveOf(o) = {}

\* C4: a second DevServer.Stop completes normally.
C4_StopIdempotent ==
    \A t \in Threads : resp[t] # Reply(-1, "close of closed channel")

\* C5: restartCh never holds more than one trigger, and a scheduleRestart that
\* fires while one is pending leaves exactly one.
C5_OnePendingTrigger ==
    /\ [](\A o \in Servers : restartCh[o] <= 1)
    /\ [][\A o \in Servers :
            (wfpc[o] = "sleep" /\ wfpc'[o] = "idle" /\ restartCh[o] = 1)
                => restartCh'[o] = 1]_vars

\* a scheduleRestart is about to fire while a trigger is pending
C5_Witness == \E o \in Servers : wfpc[o] = "sleep" /\ restartCh[o] = 1 /\ mpc[o] = "idle"

Exited(o) ==
    cmd[o] # NoCmd /\ Dead(cmd[o]) /\ mpc[o] = "idle" /\ restartCh[o] = 0

TriggerStep(o) ==
    \/ spc[o] = "send" /\ spc'[o] = "wait"
    \/ wfpc[o] = "sleep" /\ wfpc'[o] = "idle"
    \/ \E t \in Threads : hpc[t] = "hr_send" /\ hreq[t].o = o /\ hpc'[t] = "idle"

C8_NoAutoRestart ==
    /\ [](\A o \in Servers : (Exited(o) /\ ~mon[cmd[o]]) => status[o] = "stopped")
    /\ [][\A o \in Servers :
            (Exited(o) /\ ~TriggerStep(o))
                => /\ Exited(o)'
                   /\ LiveOf(o)' \subseteq LiveOf(o)
                   /\ status'[o] \in {status[o], "stopped"}]_vars

\* the child crashed, its monitor has run, nothing is pending
C8_Witness ==
    \E o \in Servers :
        Exited(o) /\ childSt[cmd[o]] = "exit1" /\ ~mon[cmd[o]] /\ status[o] = "stopped"

\* C9: after a failed cycle no child is live and the status keeps the failure
\* value for as long as no restart cycle runs.
FailedStatus == {"build_failed", "start_failed"}

C9_FailedCycleParks ==
    /\ [](\A o \in Servers : (status[o] \in FailedStatus /\ mpc[o] = "idle") => LiveOf(o) = {})
    /\ [][\A o \in Servers :
            (status[o] \in FailedStatus /\ mpc[o] = "idle" /\ mpc'[o] = "idle")
                => status'[o] = status[o]]_vars

\* C6: when the trigger for a change is emitted and a later change of the same
\* burst (less than restartDelay after it) has arrived, restartDelay of silence
\* has passed since that later change.
C6_FiresAfterQuiet ==
    [][\A o \in Servers :
         (wfpc[o] = "sleep" /\ wfpc'[o] = "idle"
          /\ lastEvent[o].last - lastEvent[o].served < config[o].Delay)
             => now >= lastEvent[o].last + config[o].Delay]_vars

\* the last n entries of a sequence
LastN(h, n) == SubSeq(h, Len(h) - n + 1, Len(h))

\* C10: once more than LogMaxLines entries have been appended, the buffer is
\* the last LogMaxLines of them, in order.
C10_LogRing ==
    \A o \in Servers :
        (appended[o].on /\ Len(appended[o].all) > config[o].LogMaxLines)
            => logs[o] = LastN(appended[o].all, config[o].LogMaxLines)

\* entries of several kinds were appended and the oldest were evicted
C10_Witness ==
    \E o \in Servers :
        /\ appended[o].on /\ config[o].LogMaxLines = 2
        /\ Len(appended[o].all) >= 4
        /\ logs[o][1] # logs[o][2]

\* C11: POST /api/restart never waits for a restart cycle: while a cycle is in
\* progress a handler standing at its send on restartCh can complete at once.
C11_RestartFireAndForget ==
    \A t \in Threads :
        (~crashed /\ hpc[t] = "hr_send" /\ mpc[hreq[t].o] \in CyclePcs)
            => ENABLED HrSend(t)

\* C12: when the stopProcess of POST /api/stop returns, the supervisor has no
\* live child and status stopped, it is still registered, and its watch and
\* trigger loops have not been shut down.
C12_StopKeepsSupervisor ==
    [][\A t \in Threads :
         (hreq[t].ep = "stop" /\ hpc[t] = "sp_status" /\ hpc'[t] = "hs_reply")
             => LET o == hreq[t].o
                IN /\ status'[o] = "stopped"
                   /\ LiveOf(o)' = {}
                   /\ servers'[srvName[o]] = o
                   /\ ~stopCh'[o]
                   /\ watcher'[o] # "closed"]_vars

\* C13: a DELETE /api/service request is accepted (not answered 404) only for
\* a name with a registered supervisor, and when its handler finishes it has
\* answered 200 and the name is no longer registered.
C13_DeleteRemoves ==
    [][\A t \in Threads :
         /\ (hpc[t] = "idle" /\ hpc'[t] = "del_lock")
                => Lookup(hreq'[t].cfg.Name) # NoServer
         /\ (hreq[t].ep = "delete" /\ hpc'[t] = "idle")
                => (resp'[t].code = 200 /\ \A n \in Names :
                        n = hreq[t].cfg.Name => servers'[n] = NoServer)]_vars

\* everything but the handlers' own positions, requests and responses
StateVars == <<mgrVars, config, watchVars, procVars, restartCh, stopCh, lastRestart,
               status, logs, spc, mpc, crashed, now, appended>>

NotFound == Reply(404, "not found")
NotAllowed == Reply(405, "method not allowed")

\* a request to /api/config, /api/logs, /api/status, /api/restart or /api/stop
\* made with method m for the service n
NamedRequest(t, m, n) ==
    \/ \E wf \in BOOLEAN, cfg \in ConfigBodies : HandleConfig(t, m, n, wf, cfg)
    \/ HandleLogs(t, n)
    \/ HandleStatus(t, n)
    \/ HandleRestart(t, m, n)
    \/ HandleStop(t, m, n)

\* C14 as stated: whatever its method, a request naming a service with no
\* registered supervisor is answered 404 and changes no state.
C14_UnknownIs404 ==
    [][\A t \in Threads, m \in Methods, n \in QueryNames :
         (n # "" /\ Lookup(n) = NoServer /\ NamedRequest(t, m, n))
             => (resp'[t] = NotFound /\ UNCHANGED StateVars)]_vars

\* a request to one of the five endpoints made with a method it supports
SupportedRequest(t, m, n) ==
    \/ m \in {"GET", "POST", "PUT"}
         /\ \E wf \in BOOLEAN, cfg \in ConfigBodies : HandleConfig(t, m, n, wf, cfg)
    \/ HandleLogs(t, n)
    \/ HandleStatus(t, n)
    \/ m = "POST" /\ HandleRestart(t, m, n)
    \/ m = "POST" /\ HandleStop(t, m, n)

\* C14 amended: a request made with a method its endpoint supports and naming
\* a service with no registered supervisor is answered 404 and changes no state.
C14_UnknownIs404Supported ==
    [][\A t \in Threads, m \in Methods, n \in QueryNames :
         (n # "" /\ Lookup(n) = NoServer /\ SupportedRequest(t, m, n))
             => (resp'[t] = NotFound /\ UNCHANGED StateVars)]_vars

\* a request for an unknown service was answered 404 after the supervisor's
\* first restart cycle
C14_Witness ==
    \E t \in Threads : resp[t] = NotFound /\ mpc[1] = "idle" /\ restartCh[1] = 0

\* a request made with a method its endpoint does not support
WrongMethodRequest(t, m, n) ==
    \/ m \notin {"GET", "POST", "PUT"}
         /\ \E wf \in BOOLEAN, cfg \in ConfigBodies : HandleConfig(t, m, n, wf, cfg)
    \/ m # "POST" /\ HandleRestart(t, m, n)
    \/ m # "POST" /\ HandleStop(t, m, n)
    \/ m \notin {"POST", "DELETE"} /\ HandleServiceMethod(t, m)
    \/ m # "POST" /\ \E ok \in BOOLEAN : HandleSaveConfig(t, m, ok)

\* C15: a request made with a method its endpoint does not support is answered
\* 405 whatever the service parameter is, and changes no state.
C15_WrongMethodIs405 ==
    [][\A t \in Threads, m \in Methods, n \in QueryNames :
         WrongMethodRequest(t, m, n)
             => (resp'[t] = NotAllowed /\ UNCHANGED StateVars)]_vars

\* C16: a malformed body on POST/PUT /api/config for a registered service, and
\* a malformed body or an empty service name on POST /api/service, are
\* answered 400 and change no state.
C16_BadRequestRejected ==
    [][\A t \in Threads :
         /\ \A m \in {"POST", "PUT"}, n \in QueryNames, cfg \in ConfigBodies :
               (n # "" /\ Lookup(n) # NoServer /\ HandleConfig(t, m, n, FALSE, cfg))
                   => (resp'[t] = Reply(400, "bad body") /\ UNCHANGED StateVars)
         /\ \A wf \in BOOLEAN, n \in {"", "a"} :
               ((~wf \/ n = "") /\ HandlePostService(t, wf, [ApiCfg EXCEPT !.Name = n]))
                   => (resp'[t].code = 400 /\ UNCHANGED StateVars)]_vars

\* a malformed body was rejected after an earlier request had replaced the
\* supervisor's spec
C16_Witness ==
    \E t \in Threads : resp[t] = Reply(400, "bad body") /\ config[1] # ApiCfg

\* C18: the supervisor registered under a name has a current spec of that name.
C18_NameKept ==
    \A n \in Names : servers[n] # NoServer => config[servers[n]].Name = n

\* the entry of the configuration list for a name
Entry0(cfgs, n) == cfgs[IndexOf(cfgs, n)]

\* C17: the specs loaded at startup and the spec of every POST /api/service
\* are the entries of the configuration list, and GET /api/config for a
\* registered name returns the entry of that name, equal in every field.
C17_RoundTrip ==
    [][\A t \in Threads :
         /\ \A d \in RoundDocs :
               HandlePostService(t, TRUE, Decode(d))
                   => Entry0(mcfg', d.val.Name) = Decode(d)
         /\ \A n \in Names :
               (hpc[t] = "hc_get" /\ hpc'[t] = "idle" /\ servers[n] = hreq[t].o)
                   => resp'[t].data.cfg = Entry0(mcfg, n)]_vars

\* GET /api/config returned the spec a POST /api/service had enabled
C17_Witness ==
    \E t \in Threads :
        resp[t].code = 200 /\ resp[t].data.cfg = Decode(PartDoc) /\ nsrv = 2

\* C19: when a POST /api/service with enabled=false finishes, no supervisor is
\* registered under the name of its spec.
C19_DisableRemoves ==
    [][\A t \in Threads :
         (hreq[t].ep = "post" /\ ~hreq[t].cfg.Enabled /\ hpc'[t] = "idle")
             => \A n \in Names : n = hreq[t].cfg.Name => servers'[n] = NoServer]_vars

\* C20: a POST /api/service whose spec equals the entry the configuration list
\* already has leaves the list as it is, and every POST /api/service completes
\* with 200 or 201.
C20_EnableIdempotent ==
    [][\A t \in Threads :
         /\ (hpc[t] = "idle" /\ hpc'[t] = "uoc_lock"
             /\ IndexOf(mcfg, hreq'[t].cfg.Name) # 0
             /\ Entry0(mcfg, hreq'[t].cfg.Name) = hreq'[t].cfg)
                => mcfg' = mcfg
         /\ (hreq[t].ep = "post" /\ hpc'[t] = "idle")
                => resp'[t].code \in {200, 201}]_vars

\* the event watchFiles takes next
NextEvent(o) == Head(evq[o]).ev

\* watchFiles logs the change and goes to schedule a restart
Signals(o) ==
    /\ wfpc'[o] = "sleep"
    /\ appended'[o].all = Append(appended[o].all, Entry("info", "file changed"))

NoSignal(o) == appended' = appended /\ wfpc' = wfpc /\ restartCh' = restartCh

\* C22: an event whose path contains an entry of IgnoreDirs as a substring
\* appends no log entry and schedules no restart.
C22_IgnoredNeverSignals ==
    [][\A o \in Servers :
         (WfEvent(o) /\ \E i \in 1..Len(config[o].IgnoreDirs) :
                            Contains(NextEvent(o).path, config[o].IgnoreDirs[i]))
             => NoSignal(o)]_vars

\* an event under an ignored name was taken and dropped after earlier changes
\* had been signalled
C22_Witness ==
    \E o \in Servers :
        /\ lastEvent[o].ev = Event(FileVG, "Write", FALSE)
        /\ config[o].IgnoreDirs = <<IgnV>> /\ config[o].WatchExts = <<ExtG>>
        /\ wfpc[o] = "idle" /\ evq[o] = <<>>
        /\ appended[o].all = <<Entry("info", "file changed")>>

ExtMatches(cfg, path) ==
    \E i \in 1..Len(cfg.WatchExts) :
        cfg.WatchExts[i] = WildcardExt \/ cfg.WatchExts[i] = Ext(path)

\* C23 as stated: a create, write or remove event is signalled exactly when
\* its extension is watched and no element of its path equals an entry of
\* IgnoreDirs.
C23_FilterByComponent ==
    [][\A o \in Servers :
         (WfEvent(o) /\ NextEvent(o).op \in RestartOps)
             => (Signals(o) <=>
                   /\ ExtMatches(config[o], NextEvent(o).path)
                   /\ \A i \in 1..Len(config[o].IgnoreDirs) :
                         config[o].IgnoreDirs[i] \notin Components(NextEvent(o).path))]_vars

\* C23 amended: a create, write or remove event is signalled exactly when its
\* extension is watched and no entry of IgnoreDirs occurs in its path as a
\* substring.
C23_FilterBySubstring ==
    [][\A o \in Servers :
         (WfEvent(o) /\ NextEvent(o).op \in RestartOps)
             => (Signals(o) <=>
                   /\ ExtMatches(config[o], NextEvent(o).path)
                   /\ \A i \in 1..Len(config[o].IgnoreDirs) :
                         ~Contains(NextEvent(o).path, config[o].IgnoreDirs[i]))]_vars

\* a change of a file with an unlisted extension was signalled under the
\* wildcard
C23_Witness ==
    \E o \in Servers :
        /\ lastEvent[o].ev = Event(FileMX, "Create", FALSE)
        /\ config[o].WatchExts = <<WildcardExt>>
        /\ wfpc[o] = "sleep"
        /\ appended[o].all = <<Entry("info", "file changed")>>

\* C24: after a directory-creation event for a path that contains no entry of
\* IgnoreDirs, the directory is watched.
C24_NewDirWatched ==
    [][\A o \in Servers :
         (WfEvent(o) /\ NextEvent(o).op = "Create" /\ NextEvent(o).isDir
          /\ \A i \in 1..Len(config[o].IgnoreDirs) :
                ~Contains(NextEvent(o).path, config[o].IgnoreDirs[i]))
             => NextEvent(o).path \in watched'[o]]_vars

\* C21: when a POST /api/service with enabled=true finishes, a supervisor that
\* has not been stopped is registered under the name of its spec.
C21_ReenableStartsNew ==
    [][\A t \in Threads :
         (hreq[t].ep = "post" /\ hreq[t].cfg.Enabled /\ hpc'[t] = "idle")
             => \A n \in Names : n = hreq[t].cfg.Name
                   => servers'[n] # NoServer /\ ~stopCh'[servers'[n]]]_vars

\* C25: while the build command runs the status is building, and running is
\* reached only from building.
C25_StatusMachine ==
    [][\A o \in Servers :
         /\ mpc'[o] = "building" => status'[o] = "building"
         /\ (status[o] # "running" /\ status'[o] = "running")
               => status[o] = "building"]_vars

\* the initial trigger of Start has been sent and received
Began(o) == spc[o] = "wait" /\ restartCh[o] = 0

C27_ShutdownStopsAll ==
    [][/\ (MgrStopClose \/ MgrStopProcess) => ~crashed'
       /\ (shut.pc # "ret" /\ shut'.pc = "ret")
             => /\ \A n \in Names : servers'[n] # NoServer => stopCh'[servers'[n]]
                /\ \A c \in Children : childSt'[c] # "live"]_vars

\* the request a handler step of thread t belongs to
StepReq(t) == IF hpc[t] = "idle" THEN hreq'[t] ELSE hreq[t]

\* a step of a handler that replaces the configuration of a registered
\* supervisor: POST/PUT /api/config, or POST /api/service with enabled=true
ReplaceStep(t) ==
    /\ hpc'[t] # hpc[t]
    /\ \/ hpc[t] = "hc_set" \/ hpc'[t] = "hc_set"
       \/ /\ StepReq(t).ep = "post" /\ StepReq(t).cfg.Enabled
          /\ \A n \in Names : n = StepReq(t).cfg.Name => servers[n] # NoServer

\* C28: no step of a request that replaces a supervisor's configuration
\* changes a restart channel, a child process, a status or a lastRestart.
C28_ReplaceKeepsProcess ==
    [][\A t \in Threads :
         ReplaceStep(t) => UNCHANGED <<restartCh, cmd, childSt, mon, status, lastRestart>>]_vars

\* the configuration was replaced under a running child
C28_Witness ==
    \E o \in Servers, t \in Threads :
        /\ config[o] \in ReplaceBodies /\ hpc[t] = "idle" /\ resp[t] = Reply(200, "ok")
        /\ HasProcess(o) /\ Live(cmd[o]) /\ status[o] = "running" /\ restartCh[o] = 0

\* the supervisors the request of a handler step names: the one its service
\* parameter was looked up to, or the ones registered under the name of the
\* spec of a POST or DELETE /api/service
Named(t) ==
    {StepReq(t).o} \cup
    (IF StepReq(t).ep \in {"post", "delete"}
     THEN {servers[n] : n \in {m \in Names : m = StepReq(t).cfg.Name}}
          \cup {servers'[n] : n \in {m \in Names : m = StepReq(t).cfg.Name}}
     ELSE {})

\* a step leaves the supervisor o and its child processes as they are
Untouched(o) ==
    /\ status'[o] = status[o] /\ config'[o] = config[o] /\ logs'[o] = logs[o]
    /\ restartCh'[o] = restartCh[o] /\ cmd'[o] = cmd[o] /\ stopCh'[o] = stopCh[o]
    /\ lastRestart'[o] = lastRestart[o] /\ watcher'[o] = watcher[o]
    /\ \A c \in Children : owner[c] = o => (childSt'[c] = childSt[c] /\ owner'[c] = o)

\* C29: a step of a handler changes the status, child process, configuration,
\* logs and restart channel of no supervisor but the one its request names.
C29_OneSupervisorPerRequest ==
    [][\A t \in Threads :
         hpc'[t] # hpc[t] => \A o \in Servers \ Named(t) : Untouched(o)]_vars

\* a was stopped and removed while the child of b runs on
C29_Witness ==
    \E t \in Threads :
        /\ servers["a"] = NoServer /\ stopCh[1] /\ hpc[t] = "idle"
        /\ resp[t] = Reply(200, "ok")
        /\ servers["b"] = 2 /\ ~stopCh[2] /\ status[2] = "running"
        /\ HasProcess(2) /\ Live(cmd[2])

\* C30: while the build command of a service runs, GET /api/status, GET
\* /api/services, GET /api/config and POST /api/service can go on at once: a
\* request that arrives is answered, and a handler that has reached the
\* supervisor's lock gets it.
C30_HandlersNeverAwaitBuild ==
    \A t \in Threads, o \in Servers :
        (~crashed /\ Made(o) /\ mpc[o] = "building" /\ servers[srvName[o]] = o)
            => /\ (hpc[t] = "idle" /\ serversMu = "none")
                     => (ENABLED HandleStatus(t, srvName[o]) /\ ENABLED HandleServices(t))
               /\ (hpc[t] = "hc_get" /\ hreq[t].o = o) => ENABLED HcGet(t)
               /\ (hpc[t] = "uoc_apply" /\ hreq[t].o = o) => ENABLED UocApply(t)

\* C31: whatever the restart cycle of a does, b runs its first cycle, a trigger
\* pending for b leads to a cycle of b, and a cycle of b leads to its end.
C31_RestartsIndependent ==
    /\ <>(mpc[2] = "sp_check")
    /\ (restartCh[2] > 0) ~> (mpc[2] \in CyclePcs)
    /\ (mpc[2] \in CyclePcs) ~> (mpc[2] = "idle")

\* b has run a cycle to its end while the build of a is still running
C31_Witness ==
    /\ mpc[1] = "building" /\ mpc[2] = "idle"
    /\ status[2] = "build_failed" /\ restartCh[2] = 0

\* C32: a step that writes the status, lastRestart or cmd of a supervisor is a
\* step of the goroutine that holds its s.mu: the restart cycle, or an exit
\* monitor while no cycle holds the lock.
C32_WritesUnderLock ==
    [][\A o \in Servers :
         (status'[o] # status[o] \/ lastRestart'[o] # lastRestart[o] \/ cmd'[o] # cmd[o])
             => \/ MuHeld(o) /\ mpc'[o] # mpc[o]
                \/ ~MuHeld(o) /\ \E c \in Children : owner[c] = o /\ mon[c] /\ ~mon'[c]]_vars

\* C33: when a request that replaced the spec of a started supervisor
\* finishes, the directories under the new WatchDirs are watched or a reload
\* of the watch directories is under way; and a step that replaces the spec
\* by one with the same WatchDirs leaves the watched directories and the
\* reloads as they are.
C33_ReplaceReattaches ==
    [][\A t \in Threads :
         /\ (hpc[t] \in {"hc_set", "uoc_ret"} /\ hpc'[t] = "idle"
             /\ hreq[t].o # NoServer /\ watcher[hreq[t].o] = "open")
               => \/ rewatch'[hreq[t].o] > 0
                  \/ AddWatchDirs(config'[hreq[t].o]) \subseteq watched'[hreq[t].o]
         /\ (ReplaceStep(t) /\ \A o \in Servers : config'[o].WatchDirs = config[o].WatchDirs)
               => UNCHANGED <<watched, rewatch>>]_vars

\* the names that have a registered supervisor and an entry in the list
Listed == {n \in Names : servers[n] # NoServer /\ IndexOf(mcfg, n) # 0}

\* C34 as stated: what POST /api/config/save writes holds, for every
\* registered service, the spec its supervisor runs with.
C34_SaveWritesRunningSpecs ==
    [][\A t \in Threads :
         HandleSaveConfig(t, "POST", TRUE)
             => \A n \in Listed : Entry0(saved', n) = config[servers[n]]]_vars

\* C34 amended: POST /api/config/save writes the aggregate configuration
\* list; for a registered service the written spec is the one its supervisor
\* runs with unless that one was set through POST/PUT /api/config, which is
\* not written.
C34_SaveWritesList ==
    [][\A t \in Threads :
         HandleSaveConfig(t, "POST", TRUE)
             => /\ saved' = mcfg
                /\ \A n \in Listed :
                      IF config[servers[n]] = SaveConfigBody
                      THEN Entry0(saved', n) # SaveConfigBody
                      ELSE Entry0(saved', n) = config[servers[n]]]_vars

\* the spec posted through /api/service was written although the supervisor
\* runs with the one set through /api/config since
C34_Witness ==
    /\ servers["a"] = 1 /\ config[1] = SaveConfigBody
    /\ saved = <<[SvcA EXCEPT !.Port = 2]>> /\ saved = mcfg

\* no restart cycle of o is in progress and the only exit monitor of o still
\* waiting is that of its live child
Quiescent(o) ==
    /\ Made(o) /\ mpc[o] \in {"idle", "done"}
    /\ \A c \in Children : (owner[c] = o /\ mon[c]) => (c = cmd[o] /\ Live(c))

\* C35: in a quiescent supervisor the status is running exactly when its
\* child process is live.
C35_StatusReflectsLiveness ==
    \A o \in Servers :
        (~crashed /\ Quiescent(o)) => (status[o] = "running" <=> (HasProcess(o) /\ Live(cmd[o])))

\* C36: with no request in progress and the manager not shutting down, the
\* registry lock is free.
C36_RegistryLockReleased ==
    ((\A t \in Threads : hpc[t] = "idle") /\ shut.pc \in {"run", "lock", "ret"})
        => serversMu = "none"

\* C37: the names of the entries of the aggregate list are pairwise different.
C37_NamesUnique ==
    \A i, j \in 1..Len(mcfg) : mcfg[i].Name = mcfg[j].Name => i = j

\* two POSTs of b in flight at once, both past the section under configMu
C37_Witness ==
    /\ \A t \in Threads : hpc[t] = "uoc_lock" /\ hreq[t].cfg.Name = "b"
    /\ IndexOf(mcfg, "a") # 0

\* C38: with no POST or DELETE /api/service in flight, every registered
\* supervisor has an entry of its name in the list and every enabled entry has
\* a registered supervisor.
C38_RegistryMatchesList ==
    (\A t \in Threads : hpc[t] = "idle") =>
        /\ \A n \in Names : servers[n] # NoServer => IndexOf(mcfg, n) # 0
        /\ \A i \in 1..Len(mcfg) : mcfg[i].Enabled => Lookup(mcfg[i].Name) # NoServer

\* C39: the log buffer of a supervisor never holds more entries than the
\* LogMaxLines of its current configuration.
C39_LogBufferBounded ==
    \A o \in 1..nsrv : Len(logs[o]) <= config[o].LogMaxLines
====
